---- MODULE Spec2Model ----
(***************************************************************************)
(* Model of the API-key gatekeeper of antigravity-api-proxy:               *)
(*   - the in-memory sliding-window rate limiter (api-keys/rate-limiter.js)*)
(*   - the key validator (api-keys/validator.js, shipped in the same file) *)
(*   - the SQLite-backed key table (database/models/api-keys.js)           *)
(* Times are milliseconds as returned by Date.now(); the modelled clock    *)
(* starts at 0 and only moves forward.                                     *)
(***************************************************************************)
EXTENDS Integers, Sequences, FiniteSets, TLC

VARIABLES
    now,            \* the value Date.now() returns
    rateLimitStore, \* Map<keyId, {rpm: number[], rph: number[]}>
    recorded,       \* history: per key id, every timestamp recordRequest pushed
    apiKeys,        \* rows of table api_keys, by id
    plaintext,      \* history: per row id, the secret last handed to its owner
    retired,        \* history: per secret, why it stopped working
    issuedCount,    \* how many secrets generateApiKey has produced
    createdCount,   \* how many row ids randomUUID has produced
    res,            \* the last call and what it returned
    pc,             \* per in-flight request: where its handler stands
    admitted,       \* history: per key id, the times a request passed validation
    adapter,        \* closure state of createOpenAIStreamAdapter
    feed,           \* history: the backend events the stream loop has consumed
    frames,         \* the SSE lines transformAnthropicStreamToOpenAI has yielded
    streamDone,     \* the backend stream is exhausted and the generator returned
    accounts,       \* the account pool: per email, the identity's mutable fields
    cursor,         \* the round-robin strategy's position in the candidate list
    strategyName,   \* accountSelection.strategy / --strategy as configured
    selections,     \* history: every selectAccount call and what it returned
    stableSince,    \* history: selections made before the candidate list last changed
    streams,        \* per concurrent stream: its adapter, the events fed, the frames yielded
    db,             \* `let db` of the database module: the open handle or null
    dbOpened,       \* how many handles `new Database` has produced
    migrationsTable,\* rows of table migrations in the database file
    migrationRuns,  \* history: how often runMigrations has been entered
    dbReady         \* history: an initDatabase returned normally and no closeDatabase since

vars == <<now, rateLimitStore, recorded, apiKeys, plaintext,
          retired, issuedCount, createdCount, res, pc, admitted,
          adapter, feed, frames, streamDone,
          accounts, cursor, strategyName, selections, stableSince,
          streams, db, dbOpened, migrationsTable, migrationRuns, dbReady>>

-----------------------------------------------------------------------------
(* Bounds of the model *)

MaxRequests == 3
MaxIssued == 2
MaxInFlight == 2
MaxKeyRequests == 1

(* Program constants *)

MinuteMs == 60000
HourMs == 3600000
SecondMs == 1000

(* SQL NULL / JS null in an integer column: a value no modelled number takes, *)
(* so that a column holding -1 or any other small integer is not null        *)
NULL == -1000000001
(* Math.min() of no arguments: greater than every modelled number *)
Infinity == 2000000000

(* JS null where an object, a string or an array is expected *)
Null == [isNull |-> TRUE]

(* variant: only null is falsy *)
Truthy_zeroCounts(x) == x # NULL

(* !x for a nullable number: null and 0 are falsy *)
Truthy(x) == x # NULL /\ x # 0

(* The instants at which the modelled clock is read *)
ClockPoints == {0, 1000, 2000, 3000, 59500, 60000, 3599500, 3600000}

-----------------------------------------------------------------------------
(* Rate limiter *)

(* variant: a timestamp exactly one window old is kept *)
Filter_inclusive(seq, cutoff) == SelectSeq(seq, LAMBDA ts : ts >= cutoff)

Filter(seq, cutoff) == SelectSeq(seq, LAMBDA ts : ts > cutoff)

RECURSIVE MathMin(_)
MathMin(seq) ==
    IF seq = <<>> THEN Infinity
    ELSE IF Len(seq) = 1 THEN seq[1]
    ELSE LET m == MathMin(Tail(seq)) IN IF seq[1] < m THEN seq[1] ELSE m

(* variant: rounds down *)
MathCeil_floor(a, b) == a \div b

(* Math.ceil(a / b) for b > 0 *)
MathCeil(a, b) == -((-a) \div b)

MathMax(a, b) == IF a > b THEN a ELSE b

EmptyData == [rpm |-> <<>>, rph |-> <<>>]

(* getRateLimitData: the store after the get-or-create *)
getRateLimitData(store, keyId) ==
    IF keyId \in DOMAIN store THEN store
    ELSE [k \in DOMAIN store \cup {keyId} |->
            IF k = keyId THEN EmptyData ELSE store[k]]

RetryAfter(seq, window, t) ==
    LET oldest == MathMin(seq)
    IN  IF oldest = Infinity THEN Infinity
        ELSE MathMax(1, MathCeil((oldest + window) - t, SecondMs))

RateError(current, limit, per) ==
    [msg |-> "Rate limit exceeded", current |-> current, limit |-> limit, per |-> per]

(* variant: the check takes a slot *)
checkRateLimitStore_consuming(store, keyEntry, t) ==
    IF ~Truthy(keyEntry.rate_limit_rpm) /\ ~Truthy(keyEntry.rate_limit_rph)
    THEN store
    ELSE LET s == getRateLimitData(store, keyEntry.id)
         IN  [s EXCEPT ![keyEntry.id] =
                [rpm |-> Append(SelectSeq(s[keyEntry.id].rpm, LAMBDA ts : ts > t - MinuteMs), t),
                 rph |-> Append(SelectSeq(s[keyEntry.id].rph, LAMBDA ts : ts > t - HourMs), t)]]

(* checkRateLimit: the store it leaves behind *)
checkRateLimitStore(store, keyEntry, t) ==
    IF ~Truthy(keyEntry.rate_limit_rpm) /\ ~Truthy(keyEntry.rate_limit_rph)
    THEN store
    ELSE LET s == getRateLimitData(store, keyEntry.id)
         IN  [s EXCEPT ![keyEntry.id] =
                [rpm |-> Filter(s[keyEntry.id].rpm, t - MinuteMs),
                 rph |-> Filter(s[keyEntry.id].rph, t - HourMs)]]

(* checkRateLimit: the value it returns *)
checkRateLimitResult(store, keyEntry, t) ==
    IF ~Truthy(keyEntry.rate_limit_rpm) /\ ~Truthy(keyEntry.rate_limit_rph)
    THEN [allowed |-> TRUE, error |-> Null, retryAfter |-> NULL,
          current |-> [rpm |-> 0, rph |-> 0]]
    ELSE LET data == checkRateLimitStore(store, keyEntry, t)[keyEntry.id]
             currentRpm == Len(data.rpm)
             currentRph == Len(data.rph)
         IN  IF Truthy(keyEntry.rate_limit_rpm) /\ currentRpm >= keyEntry.rate_limit_rpm
             THEN [allowed |-> FALSE,
                   error |-> RateError(currentRpm, keyEntry.rate_limit_rpm, "minute"),
                   retryAfter |-> RetryAfter(data.rpm, MinuteMs, t),
                   current |-> [rpm |-> currentRpm, rph |-> currentRph]]
             ELSE IF Truthy(keyEntry.rate_limit_rph) /\ currentRph >= keyEntry.rate_limit_rph
             THEN [allowed |-> FALSE,
                   error |-> RateError(currentRph, keyEntry.rate_limit_rph, "hour"),
                   retryAfter |-> RetryAfter(data.rph, HourMs, t),
                   current |-> [rpm |-> currentRpm, rph |-> currentRph]]
             ELSE [allowed |-> TRUE, error |-> Null, retryAfter |-> NULL,
                   current |-> [rpm |-> currentRpm, rph |-> currentRph]]

(* variant: the hour window is not written *)
recordRequestStore_hourSkipped(store, keyId, t) ==
    LET s == getRateLimitData(store, keyId)
    IN  [s EXCEPT ![keyId] = [rpm |-> Append(s[keyId].rpm, t), rph |-> s[keyId].rph]]

(* recordRequest: the store it leaves behind *)
recordRequestStore(store, keyId, t) ==
    LET s == getRateLimitData(store, keyId)
    IN  [s EXCEPT ![keyId] = [rpm |-> Append(s[keyId].rpm, t),
                              rph |-> Append(s[keyId].rph, t)]]

Remaining(limit, current) ==
    IF Truthy(limit) THEN MathMax(0, limit - current) ELSE NULL

(* getRateLimitStatus: the store it leaves behind *)
getRateLimitStatusStore(store, keyEntry, t) ==
    LET s == getRateLimitData(store, keyEntry.id)
    IN  [s EXCEPT ![keyEntry.id] =
            [rpm |-> Filter(s[keyEntry.id].rpm, t - MinuteMs),
             rph |-> Filter(s[keyEntry.id].rph, t - HourMs)]]

(* getRateLimitStatus: the value it returns *)
getRateLimitStatusResult(store, keyEntry, t) ==
    LET data == getRateLimitStatusStore(store, keyEntry, t)[keyEntry.id]
    IN  [rpm |-> [current |-> Len(data.rpm), limit |-> keyEntry.rate_limit_rpm,
                  remaining |-> Remaining(keyEntry.rate_limit_rpm, Len(data.rpm))],
         rph |-> [current |-> Len(data.rph), limit |-> keyEntry.rate_limit_rph,
                  remaining |-> Remaining(keyEntry.rate_limit_rph, Len(data.rph))]]

(* variant: an entry goes as soon as its minute window is empty *)
cleanupExpiredEntriesStore_minuteDecides(store, t) ==
    LET pruned == [k \in DOMAIN store |->
                     [rpm |-> Filter(store[k].rpm, t - MinuteMs),
                      rph |-> Filter(store[k].rph, t - HourMs)]]
        kept == {k \in DOMAIN store : ~(pruned[k].rpm = <<>>)}
    IN  [k \in kept |-> pruned[k]]

(* cleanupExpiredEntries: the store it leaves behind *)
cleanupExpiredEntriesStore(store, t) ==
    LET pruned == [k \in DOMAIN store |->
                     [rpm |-> Filter(store[k].rpm, t - MinuteMs),
                      rph |-> Filter(store[k].rph, t - HourMs)]]
        kept == {k \in DOMAIN store : ~(pruned[k].rpm = <<>> /\ pruned[k].rph = <<>>)}
    IN  [k \in kept |-> pruned[k]]

(* variant: the whole store is cleared *)
resetRateLimitStore_clearsAll(store, keyId) == <<>>

(* resetRateLimit: the store it leaves behind *)
resetRateLimitStore(store, keyId) ==
    [k \in DOMAIN store \ {keyId} |-> store[k]]

-----------------------------------------------------------------------------
(* The rate limiter on its own: callers pass any key entry *)

RLKeyIds == {"id1", "id2"}
(* createApiKey stores `options.rate_limit_rpm || null` and updateApiKey the *)
(* value as given: null, 0, positive and negative limits all reach the limiter *)
RLLimitPairs == {<<NULL, NULL>>, <<0, 0>>, <<3, 0>>, <<0, 2>>, <<1, 2>>, <<3, 2>>,
                 <<-1, NULL>>}
RLEntries == {[id |-> k, rate_limit_rpm |-> p[1], rate_limit_rph |-> p[2]] :
                k \in RLKeyIds, p \in RLLimitPairs}

NoResult == [op |-> "none"]

RECURSIVE SumLen(_, _)
SumLen(f, ks) ==
    IF ks = {} THEN 0
    ELSE LET k == CHOOSE x \in ks : TRUE IN Len(f[k]) + SumLen(f, ks \ {k})

TotalRecorded == SumLen(recorded, DOMAIN recorded)

KeyFrame == UNCHANGED <<apiKeys, plaintext, retired, issuedCount, createdCount>>
ReqFrame == UNCHANGED <<pc, admitted>>
StreamFrame == UNCHANGED <<adapter, feed, frames, streamDone>>
PoolFrame == UNCHANGED <<accounts, cursor, strategyName, selections, stableSince>>
PairFrame == UNCHANGED streams
DbFrame == UNCHANGED <<db, dbOpened, migrationsTable, migrationRuns, dbReady>>

(* let sentRole = false; let currentToolIndex = -1; const toolCallMap = new Map() *)
(* `chatcmpl-${crypto.randomBytes(14).toString('hex')}`: the ids a stream can draw *)
CompletionId == "chatcmpl-5f1c"
CompletionIds == {CompletionId, "chatcmpl-a07e"}

(* createOpenAIStreamAdapter(model), its random bytes giving id *)
createOpenAIStreamAdapter(id) ==
    [completionId |-> id, sentRole |-> FALSE, currentToolIndex |-> -1, toolCallMap |-> <<>>]

NewAdapter == createOpenAIStreamAdapter(CompletionId)

InitStream ==
    /\ adapter = NewAdapter
    /\ feed = <<>>
    /\ frames = <<>>
    /\ streamDone = FALSE

(* no account loaded, no concurrent stream, the database module just imported *)
InitPoolIdle ==
    /\ accounts = <<>>
    /\ cursor = 0
    /\ strategyName = "round-robin"
    /\ selections = <<>>
    /\ stableSince = 0
InitPairIdle == streams = <<>>
InitDbIdle ==
    /\ db = NULL
    /\ dbOpened = 0
    /\ migrationsTable = <<>>
    /\ migrationRuns = 0
    /\ dbReady = FALSE

InitBase ==
    /\ now = 0
    /\ rateLimitStore = <<>>
    /\ res = NoResult
    /\ apiKeys = <<>>
    /\ plaintext = <<>>
    /\ retired = <<>>
    /\ issuedCount = 0
    /\ createdCount = 0
    /\ pc = <<>>
    /\ admitted = <<>>

InitCommon ==
    /\ InitBase
    /\ InitStream
    /\ InitPoolIdle /\ InitPairIdle /\ InitDbIdle

InitRL ==
    /\ InitCommon
    /\ recorded = [k \in RLKeyIds |-> <<>>]

Tick(t) ==
    /\ t > now
    /\ now' = t
    /\ res' = NoResult
    /\ UNCHANGED <<rateLimitStore, recorded>>
    /\ KeyFrame /\ StreamFrame /\ ReqFrame
    /\ PoolFrame /\ PairFrame /\ DbFrame

RLCheck(e) ==
    /\ rateLimitStore' = checkRateLimitStore(rateLimitStore, e, now)
    /\ res' = [op |-> "checkRateLimit", entry |-> e,
               ret |-> checkRateLimitResult(rateLimitStore, e, now)]
    /\ UNCHANGED <<now, recorded>>
    /\ KeyFrame /\ StreamFrame /\ ReqFrame
    /\ PoolFrame /\ PairFrame /\ DbFrame

RLRecord(id) ==
    /\ TotalRecorded < MaxRequests
    /\ rateLimitStore' = recordRequestStore(rateLimitStore, id, now)
    /\ recorded' = [recorded EXCEPT ![id] = Append(@, now)]
    /\ res' = [op |-> "recordRequest", id |-> id]
    /\ UNCHANGED now
    /\ KeyFrame /\ StreamFrame /\ ReqFrame
    /\ PoolFrame /\ PairFrame /\ DbFrame

RLStatus(e) ==
    /\ rateLimitStore' = getRateLimitStatusStore(rateLimitStore, e, now)
    /\ res' = [op |-> "getRateLimitStatus", entry |-> e,
               ret |-> getRateLimitStatusResult(rateLimitStore, e, now)]
    /\ UNCHANGED <<now, recorded>>
    /\ KeyFrame /\ StreamFrame /\ ReqFrame
    /\ PoolFrame /\ PairFrame /\ DbFrame

RLCleanup ==
    /\ rateLimitStore' = cleanupExpiredEntriesStore(rateLimitStore, now)
    /\ res' = [op |-> "cleanupExpiredEntries"]
    /\ UNCHANGED <<now, recorded>>
    /\ KeyFrame /\ StreamFrame /\ ReqFrame
    /\ PoolFrame /\ PairFrame /\ DbFrame

RLReset(id) ==
    /\ rateLimitStore' = resetRateLimitStore(rateLimitStore, id)
    /\ recorded' = [recorded EXCEPT ![id] = <<>>]
    /\ res' = [op |-> "resetRateLimit", id |-> id]
    /\ UNCHANGED now
    /\ KeyFrame /\ StreamFrame /\ ReqFrame
    /\ PoolFrame /\ PairFrame /\ DbFrame

NextRL ==
    \/ \E t \in ClockPoints : Tick(t)
    \/ \E e \in RLEntries : RLCheck(e)
    \/ \E id \in RLKeyIds : RLRecord(id)
    \/ \E e \in RLEntries : RLStatus(e)
    \/ RLCleanup
    \/ \E id \in RLKeyIds : RLReset(id)

SpecRL == InitRL /\ [][NextRL]_vars

-----------------------------------------------------------------------------
(* Pattern matching of the validator.  A string is a sequence of           *)
(* one-character strings.                                                  *)

(* case folding of the RegExp flag 'i', for the letters the model uses *)
ToLower(c) ==
    CASE c = "A" -> "a" [] c = "B" -> "b" [] c = "C" -> "c" [] c = "F" -> "f"
      [] c = "G" -> "g" [] OTHER -> c

(* the characters U+2028 LINE SEPARATOR and U+2029 PARAGRAPH SEPARATOR, each *)
(* one character of a string                                                *)
LineSeparator == "U+2028"
ParagraphSeparator == "U+2029"

(* the line terminators of a regular expression: LF, CR, U+2028, U+2029 *)
LineTerminators == {"\n", "\r", LineSeparator, ParagraphSeparator}

(* what the regular expression's `.` accepts without the flag 's': anything *)
(* but a line terminator                                                    *)
DotMatches(c) == c \notin LineTerminators

(* the character class [.+?^${}()|[\]\\] *)
RegexSpecials == {".", "+", "?", "^", "$", "{", "}", "(", ")", "|", "[", "]", "\\"}

(* pattern.replace(/[.+?^${}()|[\]\\]/g, '\\$&') *)
RECURSIVE EscapeSpecials(_)
EscapeSpecials(pattern) ==
    IF pattern = <<>> THEN <<>>
    ELSE IF Head(pattern) \in RegexSpecials
         THEN <<"\\", Head(pattern)>> \o EscapeSpecials(Tail(pattern))
         ELSE <<Head(pattern)>> \o EscapeSpecials(Tail(pattern))

(* .replace(/\*/g, '.*') *)
RECURSIVE StarToDotStar(_)
StarToDotStar(escaped) ==
    IF escaped = <<>> THEN <<>>
    ELSE IF Head(escaped) = "*"
         THEN <<".", "*">> \o StarToDotStar(Tail(escaped))
         ELSE <<Head(escaped)>> \o StarToDotStar(Tail(escaped))

(* two characters are equal under the flag 'i' *)
SameChar(c, d) == ToLower(c) = ToLower(d)

(* new RegExp('^' + source + '$', 'i').test(value), for the sources the two *)
(* replacements produce: `\c` is the character c, `.*` any run that `.`     *)
(* accepts, any other character is itself                                   *)
RECURSIVE RegexTest(_, _)
RegexTest(value, source) ==
    IF source = <<>> THEN value = <<>>
    ELSE IF Head(source) = "\\" /\ Len(source) >= 2
         THEN /\ value # <<>>
              /\ SameChar(Head(value), source[2])
              /\ RegexTest(Tail(value), Tail(Tail(source)))
    ELSE IF Head(source) = "." /\ Len(source) >= 2 /\ source[2] = "*"
         THEN \/ RegexTest(value, Tail(Tail(source)))
              \/ /\ value # <<>>
                 /\ DotMatches(Head(value))
                 /\ RegexTest(Tail(value), source)
    ELSE /\ value # <<>>
         /\ SameChar(Head(value), Head(source))
         /\ RegexTest(Tail(value), Tail(source))

matchModelPattern(model, pattern) ==
    IF pattern = <<>> \/ model = <<>> THEN FALSE
    ELSE RegexTest(model, StarToDotStar(EscapeSpecials(pattern)))

(* variant: the list of patterns is not consulted *)
isModelAllowed_unrestricted(model, allowedModels) == TRUE

(* an array parsed from a JSON column: Null, or [arr |-> the elements] *)
isModelAllowed(model, allowedModels) ==
    IF allowedModels = Null \/ allowedModels.arr = <<>> THEN TRUE
    ELSE \E i \in 1..Len(allowedModels.arr) : matchModelPattern(model, allowedModels.arr[i])

Ip6Loopback == <<":", ":", "1">>
Ip4Loopback == <<"1", "2", "7", ".", "0", ".", "0", ".", "1">>
Ip6MappedPrefix == <<":", ":", "f", "f", "f", "f", ":">>

(* variant: the IPv6-mapped prefix is left in place *)
StripMappedPrefix_kept(ip) == ip

(* ip.replace(/^::ffff:/, '') *)
StripMappedPrefix(ip) ==
    IF Len(ip) >= Len(Ip6MappedPrefix) /\ SubSeq(ip, 1, Len(Ip6MappedPrefix)) = Ip6MappedPrefix
    THEN SubSeq(ip, Len(Ip6MappedPrefix) + 1, Len(ip))
    ELSE ip

matchIpPattern(ip, pattern) ==
    IF pattern = <<>> \/ ip = <<>> THEN FALSE
    ELSE LET normalizedIp == IF ip = Ip6Loopback THEN Ip4Loopback ELSE ip
             normalizedPattern == IF pattern = Ip6Loopback THEN Ip4Loopback ELSE pattern
         IN  RegexTest(StripMappedPrefix(normalizedIp),
                       StarToDotStar(EscapeSpecials(normalizedPattern)))

isIpAllowed(ip, ipWhitelist) ==
    IF ipWhitelist = Null \/ ipWhitelist.arr = <<>> THEN TRUE
    ELSE \E i \in 1..Len(ipWhitelist.arr) : matchIpPattern(ip, ipWhitelist.arr[i])

-----------------------------------------------------------------------------
(* The key table (SQLite table api_keys).  The columns that take part in   *)
(* validation are modelled: id, key_hash, key_prefix, allowed_models,      *)
(* rate_limit_rpm, rate_limit_rph, ip_whitelist, expires_at, enabled.      *)

(* crypto.randomBytes(16) never repeats: the n-th generated secret *)
SecretPool == <<"sk-ag-1f0e", "sk-ag-2d3c", "sk-ag-3b4a", "sk-ag-4958", "sk-ag-5776">>
HashPool == <<"c81e", "9a3f", "47d2", "e05b", "16f8">>
PrefixPool == <<"sk-ag-1f****0e", "sk-ag-2d****3c", "sk-ag-3b****4a",
                "sk-ag-49****58", "sk-ag-57****76">>
(* crypto.randomUUID(): the n-th generated row id *)
IdPool == <<"id1", "id2">>

(* a well-formed secret that generateApiKey never produced *)
ForeignSecret == "sk-ag-0000"
NoKey == ""

generateApiKey(n) == SecretPool[n + 1]

(* SHA-256, one-way: a digest per secret, no two secrets sharing one *)
hashApiKey(key) ==
    IF \E i \in 1..Len(SecretPool) : SecretPool[i] = key
    THEN HashPool[CHOOSE i \in 1..Len(SecretPool) : SecretPool[i] = key]
    ELSE "b5d4"

getKeyPrefix(key) ==
    IF \E i \in 1..Len(SecretPool) : SecretPool[i] = key
    THEN PrefixPool[CHOOSE i \in 1..Len(SecretPool) : SecretPool[i] = key]
    ELSE "sk-ag-****"

(* JSON.stringify of an array, and JSON.parse of that text *)
JSONstringify(a) == [json |-> a.arr]
JSONparse(text) == [arr |-> text.json]

(* value ? JSON.stringify(value) : null *)
ToJsonColumn(a) == IF a = Null THEN Null ELSE JSONstringify(a)
(* column ? JSON.parse(column) : null *)
FromJsonColumn(text) == IF text = Null THEN Null ELSE JSONparse(text)

(* value || null *)
OrNull(x) == IF Truthy(x) THEN x ELSE NULL

(* the row createApiKey inserts *)
NewRow(id, key, options) ==
    [id |-> id,
     key_hash |-> hashApiKey(key),
     key_prefix |-> getKeyPrefix(key),
     allowed_models |-> ToJsonColumn(options.allowed_models),
     rate_limit_rpm |-> OrNull(options.rate_limit_rpm),
     rate_limit_rph |-> OrNull(options.rate_limit_rph),
     ip_whitelist |-> ToJsonColumn(options.ip_whitelist),
     expires_at |-> OrNull(options.expires_at),
     enabled |-> 1]

(* what createApiKey returns *)
createApiKeyResult(id, key, options) ==
    [id |-> id, key |-> key, key_prefix |-> getKeyPrefix(key),
     allowed_models |-> options.allowed_models,
     rate_limit_rpm |-> OrNull(options.rate_limit_rpm),
     rate_limit_rph |-> OrNull(options.rate_limit_rph),
     ip_whitelist |-> options.ip_whitelist,
     expires_at |-> OrNull(options.expires_at),
     enabled |-> TRUE]

(* the object built from a selected row: Boolean(enabled), parsed arrays *)
ParseRow(row) ==
    [f \in DOMAIN row |->
        IF f = "enabled" THEN row[f] # 0
        ELSE IF f \in {"allowed_models", "ip_whitelist"} THEN FromJsonColumn(row[f])
        ELSE row[f]]

(* SELECT of every column but key_hash *)
PublicColumns(row) == [f \in DOMAIN row \ {"key_hash"} |-> row[f]]

listApiKeys(rows) == {ParseRow(PublicColumns(rows[id])) : id \in DOMAIN rows}

getApiKeyById(rows, id) ==
    IF id \in DOMAIN rows THEN ParseRow(PublicColumns(rows[id])) ELSE Null

(* variant: the lookup falls back to some row when no digest matches *)
findApiKeyByHash_anyRow(rows, keyHash) ==
    IF \E id \in DOMAIN rows : rows[id].key_hash = keyHash
    THEN ParseRow(rows[CHOOSE id \in DOMAIN rows : rows[id].key_hash = keyHash])
    ELSE IF DOMAIN rows # {} THEN ParseRow(rows[CHOOSE id \in DOMAIN rows : TRUE])
    ELSE Null

findApiKeyByHash(rows, keyHash) ==
    IF \E id \in DOMAIN rows : rows[id].key_hash = keyHash
    THEN ParseRow(rows[CHOOSE id \in DOMAIN rows : rows[id].key_hash = keyHash])
    ELSE Null

AllowedFields == {"name", "allowed_models", "rate_limit_rpm", "rate_limit_rph",
                  "ip_whitelist", "expires_at", "enabled", "notes"}

(* the value updateApiKey binds for one field *)
DbValue(field, value) ==
    IF field \in {"allowed_models", "ip_whitelist"} THEN ToJsonColumn(value)
    ELSE IF field = "enabled" THEN (IF value THEN 1 ELSE 0)
    ELSE value

(* the table after updateApiKey(id, updates) *)
updateApiKeyRows(rows, id, updates) ==
    IF DOMAIN updates \cap AllowedFields = {} \/ id \notin DOMAIN rows THEN rows
    ELSE [rows EXCEPT ![id] =
            [f \in DOMAIN rows[id] |->
                IF f \in DOMAIN updates \cap AllowedFields
                THEN DbValue(f, updates[f]) ELSE rows[id][f]]]

updateApiKeyResult(rows, id, updates) ==
    DOMAIN updates \cap AllowedFields # {} /\ id \in DOMAIN rows

deleteApiKeyRows(rows, id) == [k \in DOMAIN rows \ {id} |-> rows[k]]

(* variant: the regenerated row is enabled again *)
regenerateApiKeyRows_reenabled(rows, id, newKey) ==
    IF getApiKeyById(rows, id) = Null THEN rows
    ELSE [rows EXCEPT ![id].key_hash = hashApiKey(newKey),
                      ![id].key_prefix = getKeyPrefix(newKey),
                      ![id].enabled = 1]

(* the table after regenerateApiKey(id) drew newKey *)
regenerateApiKeyRows(rows, id, newKey) ==
    IF getApiKeyById(rows, id) = Null THEN rows
    ELSE [rows EXCEPT ![id].key_hash = hashApiKey(newKey),
                      ![id].key_prefix = getKeyPrefix(newKey)]

(* what regenerateApiKey returns: {...existing, key, key_prefix} *)
regenerateApiKeyResult(rows, id, newKey) ==
    LET existing == getApiKeyById(rows, id)
    IN  IF existing = Null THEN Null
        ELSE [f \in DOMAIN existing \cup {"key"} |->
                IF f = "key" THEN newKey
                ELSE IF f = "key_prefix" THEN getKeyPrefix(newKey)
                ELSE existing[f]]

-----------------------------------------------------------------------------
(* The validator *)

AuthError(msg) == [msg |-> msg]
IpError(ip) == [msg |-> "IP address is not allowed for this API key", ip |-> ip]
ModelError(model) == [msg |-> "Model is not allowed for this API key", model |-> model]

Rejected(keyEntry, error, status) ==
    [valid |-> FALSE, key |-> keyEntry, error |-> error, status |-> status]

(* variant: the model is checked first *)
RestrictionError_modelFirst(keyEntry, t, model, ip) ==
    IF model # <<>> /\ ~isModelAllowed(model, keyEntry.allowed_models)
    THEN Rejected(keyEntry, ModelError(model), 403)
    ELSE IF ~keyEntry.enabled
    THEN Rejected(keyEntry, AuthError("API key is disabled"), 403)
    ELSE IF Truthy(keyEntry.expires_at) /\ t > keyEntry.expires_at
    THEN Rejected(keyEntry, AuthError("API key has expired"), 403)
    ELSE IF ip # <<>> /\ ~isIpAllowed(ip, keyEntry.ip_whitelist)
    THEN Rejected(keyEntry, IpError(ip), 403)
    ELSE Null

(* variant: the enabled flag is not looked at *)
RestrictionError_ignoresEnabled(keyEntry, t, model, ip) ==
    IF Truthy(keyEntry.expires_at) /\ t > keyEntry.expires_at
    THEN Rejected(keyEntry, AuthError("API key has expired"), 403)
    ELSE IF ip # <<>> /\ ~isIpAllowed(ip, keyEntry.ip_whitelist)
    THEN Rejected(keyEntry, IpError(ip), 403)
    ELSE IF model # <<>> /\ ~isModelAllowed(model, keyEntry.allowed_models)
    THEN Rejected(keyEntry, ModelError(model), 403)
    ELSE Null

(* variant: the IP whitelist is checked before the expiry *)
RestrictionError_ipBeforeExpiry(keyEntry, t, model, ip) ==
    IF ~keyEntry.enabled
    THEN Rejected(keyEntry, AuthError("API key is disabled"), 403)
    ELSE IF ip # <<>> /\ ~isIpAllowed(ip, keyEntry.ip_whitelist)
    THEN Rejected(keyEntry, IpError(ip), 403)
    ELSE IF Truthy(keyEntry.expires_at) /\ t > keyEntry.expires_at
    THEN Rejected(keyEntry, AuthError("API key has expired"), 403)
    ELSE IF model # <<>> /\ ~isModelAllowed(model, keyEntry.allowed_models)
    THEN Rejected(keyEntry, ModelError(model), 403)
    ELSE Null

(* validateApiKey, the checks on the looked-up entry that come before the  *)
(* rate limit: the rejection of the first one that fails, Null when all    *)
(* pass                                                                    *)
RestrictionError(keyEntry, t, model, ip) ==
    IF ~keyEntry.enabled
    THEN Rejected(keyEntry, AuthError("API key is disabled"), 403)
    ELSE IF Truthy(keyEntry.expires_at) /\ t > keyEntry.expires_at
    THEN Rejected(keyEntry, AuthError("API key has expired"), 403)
    ELSE IF ip # <<>> /\ ~isIpAllowed(ip, keyEntry.ip_whitelist)
    THEN Rejected(keyEntry, IpError(ip), 403)
    ELSE IF model # <<>> /\ ~isModelAllowed(model, keyEntry.allowed_models)
    THEN Rejected(keyEntry, ModelError(model), 403)
    ELSE Null

(* validateApiKey, the rate-limit step and the final result *)
RateLimitStep(keyEntry, store, t) ==
    LET rateLimitResult == checkRateLimitResult(store, keyEntry, t)
        after == checkRateLimitStore(store, keyEntry, t)
    IN  IF ~rateLimitResult.allowed
        THEN [ret |-> [valid |-> FALSE, key |-> keyEntry,
                       error |-> rateLimitResult.error, status |-> 429,
                       retryAfter |-> rateLimitResult.retryAfter],
              store |-> after]
        ELSE [ret |-> [valid |-> TRUE, key |-> keyEntry, error |-> Null],
              store |-> after]

(* validateApiKey: ret is the value it returns, store the rate-limit store *)
(* it leaves behind                                                        *)
validateApiKey(rows, store, t, providedKey, model, ip) ==
    IF providedKey = NoKey
    THEN [ret |-> Rejected(Null, AuthError("API key is required"), 401), store |-> store]
    ELSE
    LET keyEntry == findApiKeyByHash(rows, hashApiKey(providedKey))
    IN  IF keyEntry = Null
        THEN [ret |-> Rejected(Null, AuthError("Invalid API key"), 401), store |-> store]
        ELSE IF RestrictionError(keyEntry, t, model, ip) # Null
        THEN [ret |-> RestrictionError(keyEntry, t, model, ip), store |-> store]
        ELSE RateLimitStep(keyEntry, store, t)

-----------------------------------------------------------------------------
(* Key management and validation together *)

GeminiStar == <<"g", "e", "m", "i", "n", "i", "-", "*">>
GeminiFlash == <<"G", "e", "m", "i", "n", "i", "-", "3", "-", "f", "l", "a", "s", "h">>
ClaudeSonnet == <<"c", "l", "a", "u", "d", "e", "-", "s", "o", "n", "n", "e", "t">>
TenStar == <<"1", "0", ".", "0", ".", "0", ".", "*">>
IpInside == <<"1", "0", ".", "0", ".", "0", ".", "5">>
IpOutside == <<"8", ".", "8", ".", "8", ".", "8">>

NoModel == <<>>
NoIp == <<>>

Models == {NoModel, GeminiFlash, ClaudeSonnet}
Ips == {NoIp, IpInside, IpOutside}
(* the request contexts the validator is called with: <<model, ip>> *)
Contexts == {<<NoModel, NoIp>>, <<GeminiFlash, IpInside>>, <<ClaudeSonnet, IpInside>>,
             <<GeminiFlash, IpOutside>>, <<ClaudeSonnet, IpOutside>>}

KClockPoints == {0, 30000, 61000}

OpenOptions ==
    [allowed_models |-> [arr |-> <<>>], rate_limit_rpm |-> 0, rate_limit_rph |-> NULL,
     ip_whitelist |-> Null, expires_at |-> NULL]
RestrictedOptions ==
    [allowed_models |-> [arr |-> <<GeminiStar>>], rate_limit_rpm |-> 1,
     rate_limit_rph |-> 2, ip_whitelist |-> [arr |-> <<TenStar>>],
     expires_at |-> 30000]
CreateOptions == {OpenOptions, RestrictedOptions}

Updates == {[enabled |-> FALSE], [enabled |-> TRUE], [key_hash |-> HashPool[1]]}

Range(seq) == {seq[i] : i \in 1..Len(seq)}

CreatedIds == {IdPool[i] : i \in 1..createdCount}
IssuedSecrets == {SecretPool[i] : i \in 1..issuedCount}
PresentedKeys == {NoKey, ForeignSecret} \cup IssuedSecrets

RLFrame == UNCHANGED <<rateLimitStore, recorded>>

With(f, k, v) == [x \in DOMAIN f \cup {k} |-> IF x = k THEN v ELSE f[x]]

InitKeys ==
    /\ InitCommon
    /\ recorded = [k \in Range(IdPool) |-> <<>>]

KCreate(options) ==
    /\ createdCount < Len(IdPool)
    /\ issuedCount < MaxIssued
    /\ LET id == IdPool[createdCount + 1]
           key == generateApiKey(issuedCount)
       IN  /\ apiKeys' = With(apiKeys, id, NewRow(id, key, options))
           /\ plaintext' = With(plaintext, id, key)
           /\ res' = [op |-> "createApiKey", ret |-> createApiKeyResult(id, key, options)]
    /\ createdCount' = createdCount + 1
    /\ issuedCount' = issuedCount + 1
    /\ UNCHANGED <<now, retired>>
    /\ RLFrame /\ StreamFrame /\ ReqFrame
    /\ PoolFrame /\ PairFrame /\ DbFrame

KUpdate(id, updates) ==
    /\ apiKeys' = updateApiKeyRows(apiKeys, id, updates)
    /\ res' = [op |-> "updateApiKey", id |-> id,
               ret |-> updateApiKeyResult(apiKeys, id, updates)]
    /\ UNCHANGED <<now, plaintext, retired, issuedCount, createdCount>>
    /\ RLFrame /\ StreamFrame /\ ReqFrame
    /\ PoolFrame /\ PairFrame /\ DbFrame

KDelete(id) ==
    /\ apiKeys' = deleteApiKeyRows(apiKeys, id)
    /\ retired' = IF id \in DOMAIN apiKeys THEN With(retired, plaintext[id], "deleted")
                  ELSE retired
    /\ res' = [op |-> "deleteApiKey", id |-> id, ret |-> id \in DOMAIN apiKeys]
    /\ UNCHANGED <<now, plaintext, issuedCount, createdCount>>
    /\ RLFrame /\ StreamFrame /\ ReqFrame
    /\ PoolFrame /\ PairFrame /\ DbFrame

KRegenerate(id) ==
    /\ issuedCount < MaxIssued
    /\ LET newKey == generateApiKey(issuedCount)
       IN  /\ apiKeys' = regenerateApiKeyRows(apiKeys, id, newKey)
           /\ res' = [op |-> "regenerateApiKey", id |-> id,
                      ret |-> regenerateApiKeyResult(apiKeys, id, newKey)]
           /\ plaintext' = IF id \in DOMAIN apiKeys THEN With(plaintext, id, newKey)
                           ELSE plaintext
           /\ retired' = IF id \in DOMAIN apiKeys
                         THEN With(retired, plaintext[id], "regenerated")
                         ELSE retired
           /\ issuedCount' = IF id \in DOMAIN apiKeys THEN issuedCount + 1 ELSE issuedCount
    /\ UNCHANGED <<now, createdCount>>
    /\ RLFrame /\ StreamFrame /\ ReqFrame
    /\ PoolFrame /\ PairFrame /\ DbFrame

KValidate(providedKey, model, ip) ==
    /\ LET v == validateApiKey(apiKeys, rateLimitStore, now, providedKey, model, ip)
       IN  /\ rateLimitStore' = v.store
           /\ res' = [op |-> "validateApiKey", providedKey |-> providedKey,
                      model |-> model, ip |-> ip, ret |-> v.ret]
    /\ UNCHANGED <<now, recorded>>
    /\ KeyFrame /\ StreamFrame /\ ReqFrame
    /\ PoolFrame /\ PairFrame /\ DbFrame

KCheck(id) ==
    /\ id \in DOMAIN apiKeys
    /\ LET e == ParseRow(apiKeys[id])
       IN  /\ rateLimitStore' = checkRateLimitStore(rateLimitStore, e, now)
           /\ res' = [op |-> "checkRateLimit", entry |-> e,
                      ret |-> checkRateLimitResult(rateLimitStore, e, now)]
    /\ UNCHANGED <<now, recorded>>
    /\ KeyFrame /\ StreamFrame /\ ReqFrame
    /\ PoolFrame /\ PairFrame /\ DbFrame

KRecord(id) ==
    /\ id \in DOMAIN apiKeys
    /\ TotalRecorded < MaxKeyRequests
    /\ rateLimitStore' = recordRequestStore(rateLimitStore, id, now)
    /\ recorded' = [recorded EXCEPT ![id] = Append(@, now)]
    /\ res' = [op |-> "recordRequest", id |-> id]
    /\ UNCHANGED now
    /\ KeyFrame /\ StreamFrame /\ ReqFrame
    /\ PoolFrame /\ PairFrame /\ DbFrame

KList ==
    /\ res' = [op |-> "listApiKeys", ret |-> listApiKeys(apiKeys)]
    /\ UNCHANGED now
    /\ RLFrame /\ KeyFrame /\ StreamFrame /\ ReqFrame
    /\ PoolFrame /\ PairFrame /\ DbFrame

KGet(id) ==
    /\ res' = [op |-> "getApiKeyById", id |-> id, ret |-> getApiKeyById(apiKeys, id)]
    /\ UNCHANGED now
    /\ RLFrame /\ KeyFrame /\ StreamFrame /\ ReqFrame
    /\ PoolFrame /\ PairFrame /\ DbFrame

NextKeys ==
    \/ \E t \in KClockPoints : Tick(t)
    \/ \E o \in CreateOptions : KCreate(o)
    \/ \E id \in CreatedIds, u \in Updates : KUpdate(id, u)
    \/ \E id \in CreatedIds : KDelete(id)
    \/ \E id \in CreatedIds : KRegenerate(id)
    \/ \E k \in PresentedKeys, c \in Contexts : KValidate(k, c[1], c[2])
    \/ \E id \in CreatedIds : KCheck(id)
    \/ \E id \in CreatedIds : KRecord(id)
    \/ KList
    \/ \E id \in CreatedIds : KGet(id)

SpecKeys == InitKeys /\ [][NextKeys]_vars

-----------------------------------------------------------------------------
(* Requests in flight against one key.  A request handler validates, then  *)
(* waits for the backend, then records the request; handlers of different  *)
(* requests interleave at the wait.                                        *)

ConcKeyId == IdPool[1]
ConcOptions ==
    [allowed_models |-> Null, rate_limit_rpm |-> 1, rate_limit_rph |-> 2,
     ip_whitelist |-> Null, expires_at |-> NULL]
ConcClockPoints == {0, 30000, 61000, 3601000}

Handlers == 1..MaxInFlight

InitConc ==
    /\ now = 0
    /\ rateLimitStore = <<>>
    /\ res = NoResult
    /\ apiKeys = (ConcKeyId :> NewRow(ConcKeyId, generateApiKey(0), ConcOptions))
    /\ plaintext = (ConcKeyId :> generateApiKey(0))
    /\ retired = <<>>
    /\ issuedCount = 1
    /\ createdCount = 1
    /\ recorded = [k \in Range(IdPool) |-> <<>>]
    /\ pc = [h \in Handlers |-> "idle"]
    /\ admitted = [k \in Range(IdPool) |-> <<>>]
    /\ InitStream
    /\ InitPoolIdle /\ InitPairIdle /\ InitDbIdle

(* the handler up to its backend call: validate, then go on or answer 4xx *)
ReqValidate(h) ==
    /\ pc[h] = "idle"
    /\ Len(admitted[ConcKeyId]) < MaxRequests
    /\ LET v == validateApiKey(apiKeys, rateLimitStore, now, plaintext[ConcKeyId],
                               NoModel, NoIp)
       IN  /\ rateLimitStore' = v.store
           /\ res' = [op |-> "validateApiKey", providedKey |-> plaintext[ConcKeyId],
                      model |-> NoModel, ip |-> NoIp, ret |-> v.ret]
           /\ pc' = [pc EXCEPT ![h] = IF v.ret.valid THEN "backend" ELSE "idle"]
           /\ admitted' = IF v.ret.valid
                          THEN [admitted EXCEPT ![ConcKeyId] = Append(@, now)]
                          ELSE admitted
    /\ UNCHANGED <<now, recorded>>
    /\ KeyFrame /\ StreamFrame
    /\ PoolFrame /\ PairFrame /\ DbFrame

(* the handler after its backend call: record the request *)
ReqRecord(h) ==
    /\ pc[h] = "backend"
    /\ rateLimitStore' = recordRequestStore(rateLimitStore, ConcKeyId, now)
    /\ recorded' = [recorded EXCEPT ![ConcKeyId] = Append(@, now)]
    /\ res' = [op |-> "recordRequest", id |-> ConcKeyId]
    /\ pc' = [pc EXCEPT ![h] = "idle"]
    /\ UNCHANGED <<now, admitted>>
    /\ KeyFrame /\ StreamFrame
    /\ PoolFrame /\ PairFrame /\ DbFrame

NextConc ==
    \/ \E t \in ConcClockPoints : Tick(t)
    \/ \E h \in Handlers : ReqValidate(h)
    \/ \E h \in Handlers : ReqRecord(h)

SpecConc == InitConc /\ [][NextConc]_vars

-----------------------------------------------------------------------------
(* Sliding-window admission and retry hints *)

(* how many of the recorded requests of a key fall in (t - window, t] *)
InWindow(hist, window, t) ==
    Cardinality({i \in 1..Len(hist) : hist[i] > t - window /\ hist[i] <= t})

Unset(limit) == limit = NULL \/ limit = 0

MinuteFree(e) ==
    Unset(e.rate_limit_rpm) \/ InWindow(recorded[e.id], MinuteMs, now) < e.rate_limit_rpm

HourFree(e) ==
    Unset(e.rate_limit_rph) \/ InWindow(recorded[e.id], HourMs, now) < e.rate_limit_rph

(* C1: a check is allowed exactly when the minute window and the hour      *)
(* window, counted over the requests recorded for the key, are both below  *)
(* their limit (an unset limit never rejects); the minute window is the    *)
(* one reported when both are saturated.                                   *)
C1_SlidingWindowAdmission ==
    res.op = "checkRateLimit" =>
        /\ res.ret.allowed <=> (MinuteFree(res.entry) /\ HourFree(res.entry))
        /\ ~MinuteFree(res.entry) => res.ret.error.per = "minute"
        /\ (MinuteFree(res.entry) /\ ~HourFree(res.entry)) => res.ret.error.per = "hour"
        /\ res.ret.allowed => res.ret.error = Null

C1_Witness ==
    /\ res.op = "checkRateLimit"
    /\ ~MinuteFree(res.entry) /\ ~HourFree(res.entry)
    /\ ~res.ret.allowed
    /\ res.ret.error.per = "minute"
    /\ Len(recorded[res.entry.id]) > InWindow(recorded[res.entry.id], HourMs, now)

(* the oldest recorded request of a key still inside (t - window, t] *)
OldestInWindow(hist, window, t) ==
    LET inside == {hist[i] : i \in {j \in 1..Len(hist) : hist[j] > t - window /\ hist[j] <= t}}
    IN  CHOOSE m \in inside : \A x \in inside : m <= x

(* the least whole number of seconds covering ms milliseconds, at least 1 *)
WholeSeconds(ms, window) ==
    CHOOSE n \in 1..(window \div SecondMs) :
        /\ n * SecondMs >= ms
        /\ (n = 1 \/ (n - 1) * SecondMs < ms)

WindowOf(per) == IF per = "minute" THEN MinuteMs ELSE HourMs

ExampleHistory == <<0, 1000, 2000>>

(* C5: a rejection carries retryAfter = max(1, ceil(seconds until the      *)
(* oldest request in the saturated window leaves it)), an integer in 1..60 *)
(* for the minute window and 1..3600 for the hour window; with rpm = 3 and *)
(* requests recorded at 0, 1 and 2 s the first three checks pass and a     *)
(* check at 3 s is rejected with retryAfter 57.                            *)
C5_RetryAfter ==
    res.op = "checkRateLimit" =>
        /\ ~res.ret.allowed =>
             LET w == WindowOf(res.ret.error.per)
                 oldest == OldestInWindow(recorded[res.entry.id], w, now)
             IN  /\ res.ret.retryAfter \in 1..(w \div SecondMs)
                 /\ res.ret.retryAfter = WholeSeconds((oldest + w) - now, w)
        /\ res.ret.allowed => res.ret.retryAfter = NULL
        /\ (res.entry.rate_limit_rpm = 3 /\ Unset(res.entry.rate_limit_rph)) =>
             /\ (recorded[res.entry.id] = ExampleHistory /\ now = 3000) =>
                  (~res.ret.allowed /\ res.ret.retryAfter = 57)
             /\ (\E n \in 0..2 : recorded[res.entry.id] = SubSeq(ExampleHistory, 1, n)
                                 /\ now = n * 1000) => res.ret.allowed

(* the limit named by a rejection *)
LimitOf(entry, per) ==
    IF per = "minute" THEN entry.rate_limit_rpm ELSE entry.rate_limit_rph

(* C5, the rejection on an empty window: a key whose limit is negative is   *)
(* rejected although nothing is recorded in the window, and the rejection   *)
(* carries Math.max(1, Math.ceil(Infinity)) = Infinity.                      *)
C5_EmptyWindowRejection ==
    /\ res.op = "checkRateLimit"
    /\ ~res.ret.allowed
    /\ LimitOf(res.entry, res.ret.error.per) < 0
    /\ InWindow(recorded[res.entry.id], WindowOf(res.ret.error.per), now) = 0
    /\ res.ret.retryAfter = Infinity

(* C5, the part the code keeps: whenever a request is recorded in the      *)
(* window reported, whatever the limit, retryAfter is the least whole      *)
(* number of seconds (at least 1) until the oldest of them leaves it; a    *)
(* positive limit is never reported on an empty window; the rpm = 3        *)
(* example gives 57.                                                       *)
C5_RetryAfterOfOldest ==
    res.op = "checkRateLimit" =>
        /\ ~res.ret.allowed =>
             LET w == WindowOf(res.ret.error.per)
             IN  IF InWindow(recorded[res.entry.id], w, now) = 0
                 THEN /\ LimitOf(res.entry, res.ret.error.per) < 0
                      /\ res.ret.retryAfter = Infinity
                 ELSE LET oldest == OldestInWindow(recorded[res.entry.id], w, now)
                      IN  /\ res.ret.retryAfter \in 1..(w \div SecondMs)
                          /\ res.ret.retryAfter = WholeSeconds((oldest + w) - now, w)
        /\ res.ret.allowed => res.ret.retryAfter = NULL
        /\ (/\ res.entry.rate_limit_rpm = 3 /\ Unset(res.entry.rate_limit_rph)
            /\ recorded[res.entry.id] = ExampleHistory /\ now = 3000) =>
             (~res.ret.allowed /\ res.ret.retryAfter = 57)

C5_Witness ==
    /\ res.op = "checkRateLimit"
    /\ res.entry.rate_limit_rpm = 3
    /\ recorded[res.entry.id] = ExampleHistory
    /\ now = 3000
    /\ res.ret.retryAfter = 57

C5_WitnessHour ==
    /\ res.op = "checkRateLimit"
    /\ ~res.ret.allowed
    /\ res.ret.error.per = "hour"
    /\ res.ret.retryAfter = 1
    /\ now = 3599500

-----------------------------------------------------------------------------
(* Validation order *)

(* the rows whose owner was last handed secret k *)
Owners(k) == {id \in DOMAIN apiKeys : plaintext[id] = k}
OwnerRow(k) == apiKeys[CHOOSE id \in Owners(k) : TRUE]

WhitelistOf(row) == IF row.ip_whitelist = Null THEN <<>> ELSE row.ip_whitelist.json
ModelsOf(row) == IF row.allowed_models = Null THEN <<>> ELSE row.allowed_models.json

(* the seven checks, in the documented order, for a call of the validator *)
CheckPasses(i, k, model, ip) ==
    CASE i = 1 -> k # NoKey
      [] i = 2 -> Owners(k) # {}
      [] i = 3 -> OwnerRow(k).enabled = 1
      [] i = 4 -> Unset(OwnerRow(k).expires_at) \/ now <= OwnerRow(k).expires_at
      [] i = 5 -> \/ ip = NoIp
                  \/ WhitelistOf(OwnerRow(k)) = <<>>
                  \/ \E j \in 1..Len(WhitelistOf(OwnerRow(k))) :
                        matchIpPattern(ip, WhitelistOf(OwnerRow(k))[j])
      [] i = 6 -> \/ model = NoModel
                  \/ ModelsOf(OwnerRow(k)) = <<>>
                  \/ \E j \in 1..Len(ModelsOf(OwnerRow(k))) :
                        matchModelPattern(model, ModelsOf(OwnerRow(k))[j])
      [] i = 7 -> MinuteFree(OwnerRow(k)) /\ HourFree(OwnerRow(k))

(* checks 3..7 are about the looked-up row: they are not reached without one *)
Failing(k, model, ip) ==
    {i \in 1..7 : IF i > 2 /\ (k = NoKey \/ Owners(k) = {}) THEN FALSE
                  ELSE ~CheckPasses(i, k, model, ip)}

FirstFailing(k, model, ip) ==
    CHOOSE i \in Failing(k, model, ip) : \A j \in Failing(k, model, ip) : i <= j

StatusOfCheck == <<401, 401, 403, 403, 403, 403, 429>>
MessageOfCheck == <<"API key is required", "Invalid API key", "API key is disabled",
                    "API key has expired", "IP address is not allowed for this API key",
                    "Model is not allowed for this API key", "Rate limit exceeded">>

(* C3: the validator reports the first failing check in the order          *)
(* presence, lookup, enabled, not-expired, IP, model, rate limit, with     *)
(* that check's status and message; retryAfter is present exactly on 429;  *)
(* the result is valid only when no check fails.                           *)
C3_CheckOrder ==
    res.op = "validateApiKey" =>
        LET failing == Failing(res.providedKey, res.model, res.ip)
        IN  /\ res.ret.valid <=> failing = {}
            /\ failing # {} =>
                 LET i == FirstFailing(res.providedKey, res.model, res.ip)
                 IN  /\ res.ret.status = StatusOfCheck[i]
                     /\ res.ret.error.msg = MessageOfCheck[i]
            /\ ("retryAfter" \in DOMAIN res.ret) <=>
                 ("status" \in DOMAIN res.ret /\ res.ret.status = 429)
            /\ res.ret.valid => "status" \notin DOMAIN res.ret

C3_Witness ==
    /\ res.op = "validateApiKey"
    /\ Failing(res.providedKey, res.model, res.ip) = {3, 4, 5, 6, 7}
    /\ res.ret.status = 403
    /\ res.ret.error.msg = "API key is disabled"

-----------------------------------------------------------------------------
(* Checking never consumes a slot *)

Window(store, id, w) == IF id \in DOMAIN store THEN store[id][w] ELSE <<>>

Occurrences(seq, ts) == Cardinality({i \in 1..Len(seq) : seq[i] = ts})

(* nothing in window `new` that was not already in window `old` *)
NothingAdded(old, new) ==
    \A ts \in Range(new) : Occurrences(new, ts) <= Occurrences(old, ts)

(* every timestamp of `old` younger than the window length is still in `new` *)
OnlyStaleDropped(old, new, window, t) ==
    \A ts \in Range(old) : ts > t - window => Occurrences(new, ts) >= Occurrences(old, ts)

WindowNames == {"rpm", "rph"}
WindowLength(w) == IF w = "rpm" THEN MinuteMs ELSE HourMs

(* C4: no call but recordRequest adds a timestamp to any window of any     *)
(* key; validateApiKey and checkRateLimit drop stale timestamps only, so   *)
(* the in-window counts stay as they were; recordRequest appends exactly   *)
(* one timestamp, the current time, to both windows of its key and leaves  *)
(* every other key alone.                                                  *)
C4_CheckDoesNotConsume ==
    [][ /\ res'.op # "recordRequest" =>
            \A id \in Range(IdPool), w \in WindowNames :
                /\ NothingAdded(Window(rateLimitStore, id, w), Window(rateLimitStore', id, w))
                /\ OnlyStaleDropped(Window(rateLimitStore, id, w),
                                    Window(rateLimitStore', id, w), WindowLength(w), now)
        /\ res'.op = "recordRequest" =>
            \A id \in Range(IdPool), w \in WindowNames :
                Window(rateLimitStore', id, w) =
                    IF id = res'.id THEN Append(Window(rateLimitStore, id, w), now)
                    ELSE Window(rateLimitStore, id, w)
      ]_vars

C4_Witness ==
    /\ res.op = "validateApiKey"
    /\ ~res.ret.valid
    /\ res.ret.status = 429
    /\ Len(Window(rateLimitStore, res.ret.key.id, "rpm")) = 1
    /\ Len(recorded[res.ret.key.id]) = 1

-----------------------------------------------------------------------------
(* Secrets *)

InvalidKey(ret) ==
    /\ ~ret.valid
    /\ ret.status = 401
    /\ ret.error = AuthError("Invalid API key")
    /\ ret.key = Null

CurrentSecrets == {plaintext[id] : id \in DOMAIN apiKeys}

(* C6: validation succeeds only for the secret issued for the record it    *)
(* returns; a presented secret that is no record's issued secret is        *)
(* rejected with 401 'Invalid API key'.                                    *)
C6_ExactSecretOnly ==
    res.op = "validateApiKey" =>
        /\ res.ret.valid =>
             /\ res.ret.key.id \in DOMAIN apiKeys
             /\ plaintext[res.ret.key.id] = res.providedKey
        /\ (res.providedKey # NoKey /\ res.providedKey \notin CurrentSecrets) =>
             InvalidKey(res.ret)

C6_Witness ==
    /\ res.op = "validateApiKey"
    /\ res.ret.valid
    /\ Cardinality(DOMAIN apiKeys) = 2
    /\ res.ret.key.id = "id2"
    /\ res.providedKey = plaintext["id2"]

(* C7: a disabled key is rejected with 403 'API key is disabled' whatever  *)
(* the model, the IP and the rate-limit state, for as long as it is        *)
(* disabled; the secret of a deleted key is rejected as an invalid key     *)
(* ever after.                                                             *)
C7_DisabledOrDeletedNeverValidates ==
    res.op = "validateApiKey" =>
        /\ (Owners(res.providedKey) # {} /\ OwnerRow(res.providedKey).enabled = 0) =>
             /\ ~res.ret.valid
             /\ res.ret.status = 403
             /\ res.ret.error = AuthError("API key is disabled")
        /\ (res.providedKey \in DOMAIN retired /\ retired[res.providedKey] = "deleted") =>
             InvalidKey(res.ret)

C7_Witness ==
    /\ res.op = "validateApiKey"
    /\ Owners(res.providedKey) # {}
    /\ OwnerRow(res.providedKey).enabled = 0
    /\ Failing(res.providedKey, res.model, res.ip) = {3}
    /\ \E k \in DOMAIN retired : retired[k] = "deleted"

SettingFields == {"id", "enabled", "allowed_models", "rate_limit_rpm", "rate_limit_rph",
                  "ip_whitelist", "expires_at"}

(* the secrets the validator's lookup resolves to row id *)
ResolvingTo(id) ==
    {k \in IssuedSecrets \cup {ForeignSecret} :
        /\ findApiKeyByHash(apiKeys, hashApiKey(k)) # Null
        /\ findApiKeyByHash(apiKeys, hashApiKey(k)).id = id}

(* C8: after regenerateApiKey the old secret is an unknown key, the row    *)
(* keeps its id and every setting, the returned secret is the one that     *)
(* resolves to it, and no row is ever reachable through two secrets.       *)
C8_RegenerateReplacesSecret ==
    /\ res.op = "validateApiKey" =>
         ((res.providedKey \in DOMAIN retired /\ retired[res.providedKey] = "regenerated")
            => InvalidKey(res.ret))
    /\ (res.op = "regenerateApiKey" /\ res.ret # Null) =>
         /\ res.ret.id = res.id
         /\ res.id \in DOMAIN apiKeys
         /\ \A f \in SettingFields : ParseRow(apiKeys[res.id])[f] = res.ret[f]
         /\ ResolvingTo(res.id) = {res.ret.key}
         /\ \A k \in DOMAIN retired : findApiKeyByHash(apiKeys, hashApiKey(k)) = Null
    /\ \A id \in DOMAIN apiKeys : ResolvingTo(id) = {plaintext[id]}

C8_Witness ==
    /\ res.op = "regenerateApiKey"
    /\ res.ret # Null
    /\ ~res.ret.enabled
    /\ res.ret.allowed_models # Null
    /\ res.ret.rate_limit_rpm = 1

C8_WitnessOldSecret ==
    /\ res.op = "validateApiKey"
    /\ res.providedKey \in DOMAIN retired
    /\ retired[res.providedKey] = "regenerated"
    /\ res.ret.status = 401

-----------------------------------------------------------------------------
(* What a rejection tells *)

Expired(row) == ~Unset(row.expires_at) /\ now > row.expires_at

(* C9: for a disabled or expired key the validator answers the same for    *)
(* every model and every client IP, and the same whatever the rate-limit   *)
(* store holds; it does not touch the store.                               *)
C9_MinimalInformation ==
    \A id \in DOMAIN apiKeys :
        (apiKeys[id].enabled = 0 \/ Expired(apiKeys[id])) =>
            \A m1 \in Models, ip1 \in Ips, m2 \in Models, ip2 \in Ips :
                LET v1 == validateApiKey(apiKeys, rateLimitStore, now, plaintext[id], m1, ip1)
                    v2 == validateApiKey(apiKeys, <<>>, now, plaintext[id], m2, ip2)
                IN  /\ v1.ret = v2.ret
                    /\ ~v1.ret.valid
                    /\ v1.store = rateLimitStore

C9_Witness ==
    /\ res.op = "validateApiKey"
    /\ Owners(res.providedKey) # {}
    /\ Expired(OwnerRow(res.providedKey))
    /\ Failing(res.providedKey, res.model, res.ip) = {4, 5, 6, 7}
    /\ res.ret.error = AuthError("API key has expired")

(* the strings that must stay secret: issued plaintexts and stored digests *)
SecretStrings ==
    IssuedSecrets \cup {hashApiKey(k) : k \in IssuedSecrets}

Carries(record, field) == record # Null /\ field \in DOMAIN record

(* C10: no rejection of the validator carries the presented secret or a    *)
(* stored key hash; listApiKeys and getApiKeyById return neither a         *)
(* plaintext key nor a key hash.                                           *)
C10_NoSecretInErrors ==
    /\ (res.op = "validateApiKey" /\ ~res.ret.valid) =>
         /\ ~Carries(res.ret.key, "key_hash")
         /\ ~Carries(res.ret.key, "key")
         /\ res.ret.error.msg \notin SecretStrings
    /\ res.op = "listApiKeys" =>
         \A row \in res.ret : ~Carries(row, "key_hash") /\ ~Carries(row, "key")
    /\ res.op = "getApiKeyById" =>
         ~Carries(res.ret, "key_hash") /\ ~Carries(res.ret, "key")

-----------------------------------------------------------------------------
(* Admission under concurrent requests *)

(* C2: however the handlers of concurrent requests for one key interleave, *)
(* the requests admitted for the key within any minute never exceed        *)
(* rate_limit_rpm, and within any hour never exceed rate_limit_rph.        *)
C2_AdmissionWithinLimits ==
    \A id \in DOMAIN apiKeys :
        \A i \in 1..Len(admitted[id]) :
            /\ Truthy(apiKeys[id].rate_limit_rpm) =>
                 InWindow(admitted[id], MinuteMs, admitted[id][i]) <= apiKeys[id].rate_limit_rpm
            /\ Truthy(apiKeys[id].rate_limit_rph) =>
                 InWindow(admitted[id], HourMs, admitted[id][i]) <= apiKeys[id].rate_limit_rph

-----------------------------------------------------------------------------
(* Pattern matching as a function of its arguments: the arguments are      *)
(* drawn at the start, one call applies the function.                      *)

MaxGlobLen == 3

ValueChars == {"a", "B", ".", "\n", LineSeparator}
PatternChars == {"A", "b", ".", "*"}

RECURSIVE StringsUpTo(_, _)
StringsUpTo(chars, n) ==
    IF n = 0 THEN {<<>>}
    ELSE LET shorter == StringsUpTo(chars, n - 1)
         IN  shorter \cup {Append(s, c) : s \in shorter, c \in chars}

GlobValues == StringsUpTo(ValueChars, MaxGlobLen)
GlobPatterns == StringsUpTo(PatternChars, MaxGlobLen)

Gemini3Flash == <<"g", "e", "m", "i", "n", "i", "-", "3", "-", "f", "l", "a", "s", "h">>
ClaudeSonnet45 ==
    <<"c", "l", "a", "u", "d", "e", "-", "s", "o", "n", "n", "e", "t", "-", "4", "-", "5">>
StarThinking == <<"*", "-", "t", "h", "i", "n", "k", "i", "n", "g">>
ClaudeOpusThinking ==
    <<"c", "l", "a", "u", "d", "e", "-", "o", "p", "u", "s", "-", "4", "-", "5",
      "-", "t", "h", "i", "n", "k", "i", "n", "g">>

(* everything but the arguments is at rest *)
InitArgs ==
    /\ now = 0
    /\ rateLimitStore = <<>>
    /\ recorded = <<>>
    /\ apiKeys = <<>>
    /\ plaintext = <<>>
    /\ retired = <<>>
    /\ issuedCount = 0
    /\ createdCount = 0
    /\ pc = <<>>
    /\ admitted = <<>>
    /\ InitStream
    /\ InitPoolIdle /\ InitPairIdle /\ InitDbIdle

ArgsFrame ==
    /\ UNCHANGED <<now, rateLimitStore, recorded>>
    /\ KeyFrame /\ StreamFrame /\ ReqFrame
    /\ PoolFrame /\ PairFrame /\ DbFrame

InitGlob ==
    /\ InitArgs
    /\ res \in {[op |-> "args", value |-> v, pattern |-> p] :
                  v \in GlobValues, p \in GlobPatterns}

GlobModel ==
    /\ res.op = "args"
    /\ res' = [op |-> "matchModelPattern", model |-> res.value, pattern |-> res.pattern,
               ret |-> matchModelPattern(res.value, res.pattern)]
    /\ ArgsFrame

NextGlob == GlobModel

SpecGlob == InitGlob /\ [][NextGlob]_vars

-----------------------------------------------------------------------------
(* Glob matching *)

(* the letters that differ only in case *)
CasePairs == {<<"a", "A">>, <<"b", "B">>, <<"g", "G">>}
SameLetter(c, d) == c = d \/ <<c, d>> \in CasePairs \/ <<d, c>> \in CasePairs

Stars(p) == {i \in 1..Len(p) : p[i] = "*"}

(* how many characters of the value the pattern positions before i take up *)
(* when the star at position j stands for run[j] characters                *)
RECURSIVE Offset(_, _, _)
Offset(p, run, i) ==
    IF i <= 1 THEN 0
    ELSE Offset(p, run, i - 1) + (IF p[i - 1] = "*" THEN run[i - 1] ELSE 1)

(* the whole value matches the pattern read as a glob *)
GlobMatches(v, p) ==
    \E run \in [Stars(p) -> 0..Len(v)] :
        /\ Offset(p, run, Len(p) + 1) = Len(v)
        /\ \A i \in (1..Len(p)) \ Stars(p) : SameLetter(v[Offset(p, run, i) + 1], p[i])

(* C11: matchModelPattern(value, pattern) is true exactly when value and   *)
(* pattern are non-empty and the whole value matches the pattern, `*`      *)
(* standing for any run of characters and every other character for       *)
(* itself up to case; "gemini-*" matches "gemini-3-flash" and not          *)
(* "claude-sonnet-4-5", "*-thinking" matches "claude-opus-4-5-thinking".   *)
C11_GlobMatching ==
    /\ res.op = "matchModelPattern" =>
         res.ret = (res.model # <<>> /\ res.pattern # <<>>
                    /\ GlobMatches(res.model, res.pattern))
    /\ matchModelPattern(Gemini3Flash, GeminiStar)
    /\ ~matchModelPattern(ClaudeSonnet45, GeminiStar)
    /\ matchModelPattern(ClaudeOpusThinking, StarThinking)

-----------------------------------------------------------------------------
(* Model and IP restrictions of a key *)

(* the value matches at least one pattern of the list, read as globs *)
MatchesSome(value, patterns) ==
    /\ value # <<>>
    /\ \E j \in 1..Len(patterns) : patterns[j] # <<>> /\ GlobMatches(value, patterns[j])

(* the checks before check i of the validator's order all pass *)
ReachesCheck(i, k, model, ip) == \A j \in 1..(i - 1) : CheckPasses(j, k, model, ip)

RejectedWith(ret, status, msg) ==
    ~ret.valid /\ ret.status = status /\ ret.error.msg = msg

ModelMessage == "Model is not allowed for this API key"
IpMessage == "IP address is not allowed for this API key"

(* C12, as stated: a key without allowed_models is never rejected for its  *)
(* model; a key with allowed_models validates only requests whose model    *)
(* matches one of the patterns, and every other request with it is         *)
(* rejected, with 403 'Model ... is not allowed' once the earlier checks   *)
(* have passed.                                                            *)
C12_ModelRestriction ==
    (res.op = "validateApiKey" /\ Owners(res.providedKey) # {}) =>
        LET row == OwnerRow(res.providedKey)
            matches == MatchesSome(res.model, ModelsOf(row))
        IN  /\ ModelsOf(row) = <<>> => ~RejectedWith(res.ret, 403, ModelMessage)
            /\ ModelsOf(row) # <<>> =>
                 /\ res.ret.valid => matches
                 /\ ~matches =>
                      /\ ~res.ret.valid
                      /\ ReachesCheck(6, res.providedKey, res.model, res.ip) =>
                           RejectedWith(res.ret, 403, ModelMessage)

(* C12, amended: a key without allowed_models is never rejected for its    *)
(* model; a key with allowed_models validates only requests that name no   *)
(* model or whose model matches one of the patterns, and every request     *)
(* that names a model matching none of them is rejected, with 403          *)
(* 'Model ... is not allowed' once the earlier checks have passed.         *)
C12_ModelRestrictionWhenNamed ==
    (res.op = "validateApiKey" /\ Owners(res.providedKey) # {}) =>
        LET row == OwnerRow(res.providedKey)
            matches == MatchesSome(res.model, ModelsOf(row))
        IN  /\ ModelsOf(row) = <<>> => ~RejectedWith(res.ret, 403, ModelMessage)
            /\ ModelsOf(row) # <<>> =>
                 /\ res.ret.valid => (res.model = NoModel \/ matches)
                 /\ (res.model # NoModel /\ ~matches) =>
                      /\ ~res.ret.valid
                      /\ ReachesCheck(6, res.providedKey, res.model, res.ip) =>
                           RejectedWith(res.ret, 403, ModelMessage)

(* a restricted key was presented with a model none of its patterns match  *)
C12_Witness ==
    /\ res.op = "validateApiKey"
    /\ Owners(res.providedKey) # {}
    /\ ModelsOf(OwnerRow(res.providedKey)) # <<>>
    /\ res.model = ClaudeSonnet
    /\ RejectedWith(res.ret, 403, ModelMessage)

(* C13: a key with an ip_whitelist validates only requests whose client IP *)
(* matches one of the patterns; every other request with it, a request     *)
(* without a known client IP included, is rejected, with 403 once the      *)
(* earlier checks have passed; a key without a whitelist is never rejected *)
(* for its IP.                                                             *)
C13_IpWhitelist ==
    (res.op = "validateApiKey" /\ Owners(res.providedKey) # {}) =>
        LET row == OwnerRow(res.providedKey)
            matches == MatchesSome(res.ip, WhitelistOf(row))
        IN  /\ WhitelistOf(row) = <<>> => ~RejectedWith(res.ret, 403, IpMessage)
            /\ WhitelistOf(row) # <<>> =>
                 /\ res.ret.valid => matches
                 /\ ~matches =>
                      /\ ~res.ret.valid
                      /\ ReachesCheck(5, res.providedKey, res.model, res.ip) =>
                           RejectedWith(res.ret, 403, IpMessage)

-----------------------------------------------------------------------------
(* matchIpPattern as a function of its arguments *)

IpPublic == <<"8", ".", "8", ".", "8", ".", "8">>
IpOnes == <<"1", ".", "1", ".", "1", ".", "1">>

(* a.b.c.d written as ::ffff:a.b.c.d *)
Mapped(ip) == Ip6MappedPrefix \o ip

PlainIps == {Ip4Loopback, IpInside, IpPublic, IpOnes}
Loopbacks == {Ip4Loopback, Ip6Loopback}
ClientIps == PlainIps \cup {Mapped(ip) : ip \in PlainIps} \cup {Ip6Loopback, NoIp}

AnyIp == <<"*">>
LoopbackNet == <<"1", "2", "7", ".", "*">>
EndsInOne == <<"*", ".", "1">>
MappedAny == Ip6MappedPrefix \o <<"*">>
IpPatterns ==
    {Ip4Loopback, Ip6Loopback, TenStar, IpInside, IpPublic, AnyIp, LoopbackNet,
     EndsInOne, MappedAny, Mapped(IpInside), Mapped(Ip4Loopback), <<>>}

InitIp ==
    /\ InitArgs
    /\ res \in {[op |-> "args", ip |-> ip, pattern |-> p] :
                  ip \in ClientIps, p \in IpPatterns}

IpMatch ==
    /\ res.op = "args"
    /\ res' = [op |-> "matchIpPattern", ip |-> res.ip, pattern |-> res.pattern,
               ret |-> matchIpPattern(res.ip, res.pattern)]
    /\ ArgsFrame

NextIp == IpMatch

SpecIp == InitIp /\ [][NextIp]_vars

(* C14: for a client IP a.b.c.d and any pattern, matchIpPattern answers    *)
(* the same for a.b.c.d and for ::ffff:a.b.c.d; ::1 and 127.0.0.1 can be   *)
(* exchanged on the IP side and on the pattern side without changing the   *)
(* answer, and a loopback IP of either form matches a loopback pattern of  *)
(* either form.                                                            *)
C14_IpNormalisation ==
    res.op = "matchIpPattern" =>
        /\ res.ip \in PlainIps =>
             matchIpPattern(Mapped(res.ip), res.pattern) = res.ret
        /\ res.ip \in Loopbacks =>
             \A other \in Loopbacks : matchIpPattern(other, res.pattern) = res.ret
        /\ res.pattern \in Loopbacks =>
             \A other \in Loopbacks : matchIpPattern(res.ip, other) = res.ret
        /\ (res.ip \in Loopbacks /\ res.pattern \in Loopbacks) => res.ret
        /\ (res.ip = Mapped(Ip4Loopback) /\ res.pattern \in Loopbacks) => res.ret

(* an IPv6-mapped client IP was matched by an IPv4 pattern *)
C14_Witness ==
    /\ res.op = "matchIpPattern"
    /\ res.ip = Mapped(IpInside)
    /\ res.pattern = TenStar
    /\ res.ret

(* the IPv6 loopback was matched by the IPv4 loopback pattern *)
C14_WitnessLoopback ==
    /\ res.op = "matchIpPattern"
    /\ res.ip = Ip6Loopback
    /\ res.pattern = Ip4Loopback
    /\ res.ret

-----------------------------------------------------------------------------
(* Unlimited keys *)

(* a key created with both limits given as 0 *)
ZeroLimitOptions ==
    [allowed_models |-> Null, rate_limit_rpm |-> 0, rate_limit_rph |-> 0,
     ip_whitelist |-> Null, expires_at |-> NULL]

(* C15: a key whose rate_limit_rpm is 0 or null is never rejected on the   *)
(* minute window and one whose rate_limit_rph is 0 or null never on the    *)
(* hour window, whatever has been recorded; with both limits 0 or null     *)
(* checkRateLimit always allows; a limit of 0 given to createApiKey is     *)
(* stored as null and the key is always allowed.                           *)
C15_ZeroMeansUnlimited ==
    /\ res.op = "checkRateLimit" =>
         /\ (res.entry.rate_limit_rpm \in {0, NULL} /\ ~res.ret.allowed) =>
              res.ret.error.per = "hour"
         /\ (res.entry.rate_limit_rph \in {0, NULL} /\ ~res.ret.allowed) =>
              res.ret.error.per = "minute"
         /\ (res.entry.rate_limit_rpm \in {0, NULL} /\ res.entry.rate_limit_rph \in {0, NULL}) =>
              res.ret.allowed
    /\ \A id \in RLKeyIds :
         LET e == ParseRow(NewRow(id, generateApiKey(0), ZeroLimitOptions))
         IN  /\ e.rate_limit_rpm = NULL
             /\ e.rate_limit_rph = NULL
             /\ checkRateLimitResult(rateLimitStore, e, now).allowed

(* a key with both limits 0 was checked with every recorded request still  *)
(* inside the minute window, and allowed                                   *)
C15_Witness ==
    /\ res.op = "checkRateLimit"
    /\ res.entry.rate_limit_rpm = 0
    /\ res.entry.rate_limit_rph = 0
    /\ Len(recorded[res.entry.id]) >= 3
    /\ InWindow(recorded[res.entry.id], MinuteMs, now) = Len(recorded[res.entry.id])
    /\ res.ret.allowed

(* a key limited per minute only was allowed with three requests inside    *)
(* the hour window                                                         *)
C15_WitnessHour ==
    /\ res.op = "checkRateLimit"
    /\ res.entry.rate_limit_rpm = 3
    /\ res.entry.rate_limit_rph = 0
    /\ InWindow(recorded[res.entry.id], HourMs, now) >= 3
    /\ res.ret.allowed

-----------------------------------------------------------------------------
(* Expiration *)

ExpiredMessage == "API key has expired"

(* the instant, on the clock Date.now() reads, of a Unix timestamp in seconds *)
InstantOf(seconds) == seconds * SecondMs

(* C16: expires_at is a Unix timestamp in seconds and is compared with the *)
(* current time in that unit: an enabled key is rejected with 403          *)
(* 'API key has expired' exactly at the instants after its expires_at, and *)
(* a key without expires_at is never rejected as expired.                  *)
C16_Expiration ==
    (res.op = "validateApiKey" /\ Owners(res.providedKey) # {}) =>
        LET row == OwnerRow(res.providedKey)
        IN  /\ row.expires_at = NULL => ~RejectedWith(res.ret, 403, ExpiredMessage)
            /\ (row.expires_at # NULL /\ row.enabled = 1) =>
                 (RejectedWith(res.ret, 403, ExpiredMessage)
                    <=> now > InstantOf(row.expires_at))

-----------------------------------------------------------------------------
(* The streaming adapter (format/openai/stream-adapter.js) and the chunk   *)
(* builder (format/openai/response-converter.js).  A backend event and a   *)
(* chunk are records; a field that is absent is undefined in the code.     *)

MaxStreamLen == 3
MaxDeltas == 2

Has(obj, field) == field \in DOMAIN obj

(* JSON null where a string is expected *)
NullStr == "null"

StreamModel == "gpt-4"

(* variant: each chunk draws an id of its own *)
createStreamChunk_ownId(opts, t) ==
    LET delta ==
            (IF Has(opts, "role") /\ opts.role # "" THEN "role" :> opts.role ELSE <<>>)
            @@ (IF Has(opts, "content") THEN "content" :> opts.content ELSE <<>>)
            @@ (IF Has(opts, "toolCalls") THEN "tool_calls" :> opts.toolCalls ELSE <<>>)
        choice ==
            [index |-> 0, delta |-> delta, logprobs |-> Null,
             finish_reason |-> IF Has(opts, "finishReason") /\ opts.finishReason # ""
                               THEN opts.finishReason ELSE NullStr]
    IN  [id |-> "chatcmpl-0000", object |-> "chat.completion.chunk",
         created |-> t \div SecondMs,
         model |-> opts.model, system_fingerprint |-> Null, choices |-> <<choice>>]

(* createStreamChunk({id, model, content, toolCalls, finishReason, role}) *)
createStreamChunk(opts, t) ==
    LET delta ==
            (IF Has(opts, "role") /\ opts.role # "" THEN "role" :> opts.role ELSE <<>>)
            @@ (IF Has(opts, "content") THEN "content" :> opts.content ELSE <<>>)
            @@ (IF Has(opts, "toolCalls") THEN "tool_calls" :> opts.toolCalls ELSE <<>>)
        choice ==
            [index |-> 0, delta |-> delta, logprobs |-> Null,
             finish_reason |-> IF Has(opts, "finishReason") /\ opts.finishReason # ""
                               THEN opts.finishReason ELSE NullStr]
    IN  [id |-> opts.id, object |-> "chat.completion.chunk", created |-> t \div SecondMs,
         model |-> opts.model, system_fingerprint |-> Null, choices |-> <<choice>>]

createDoneMarker == "[DONE]"

(* `data: ${JSON.stringify(chunk)}\n\n` *)
DataJson(chunk) == [sse |-> "data", json |-> chunk]
(* `data: ${createDoneMarker()}\n\n` *)
DataText(text) == [sse |-> "data", text |-> text]

(* what transform returns: the adapter's state after the call and the line *)
(* (Null when the event is skipped)                                        *)
Skipped(a) == [adapter |-> a, out |-> Null]
Emitted(a, line) == [adapter |-> a, out |-> line]

(* variant: the flag is never set *)
onMessageStart_flagNotSet(a, t) ==
    IF ~a.sentRole
    THEN Emitted(a, DataJson(createStreamChunk(
             [id |-> a.completionId, model |-> StreamModel, role |-> "assistant"], t)))
    ELSE Skipped(a)

(* case 'message_start' *)
onMessageStart(a, t) ==
    IF ~a.sentRole
    THEN Emitted([a EXCEPT !.sentRole = TRUE], DataJson(createStreamChunk(
             [id |-> a.completionId, model |-> StreamModel, role |-> "assistant"], t)))
    ELSE Skipped(a)

(* variant: every tool call gets output index 0 *)
onContentBlockStart_indexNotAdvanced(a, event, t) ==
    IF ~Has(event, "content_block") THEN Skipped(a)
    ELSE LET block == event.content_block
         IN  IF Has(block, "type") /\ block.type = "tool_use"
             THEN Emitted([a EXCEPT !.currentToolIndex = 0,
                                    !.toolCallMap = With(@, event.index, 0)],
                          DataJson(createStreamChunk(
                              [id |-> a.completionId, model |-> StreamModel,
                               toolCalls |-> <<[index |-> 0, id |-> block.id,
                                                type |-> "function",
                                                function |-> [name |-> block.name,
                                                              arguments |-> ""]]>>], t)))
             ELSE Skipped(a)

(* case 'content_block_start' *)
onContentBlockStart(a, event, t) ==
    IF ~Has(event, "content_block") THEN Skipped(a)
    ELSE LET block == event.content_block
         IN  IF Has(block, "type") /\ block.type = "tool_use"
             THEN LET toolIndex == a.currentToolIndex + 1
                  IN  Emitted([a EXCEPT !.currentToolIndex = toolIndex,
                                        !.toolCallMap = With(@, event.index, toolIndex)],
                              DataJson(createStreamChunk(
                                  [id |-> a.completionId, model |-> StreamModel,
                                   toolCalls |-> <<[index |-> toolIndex, id |-> block.id,
                                                    type |-> "function",
                                                    function |-> [name |-> block.name,
                                                                  arguments |-> ""]]>>], t)))
             ELSE Skipped(a)

(* variant: arguments for a block that opened no tool call go to the *)
(* latest tool call                                                  *)
onContentBlockDelta_unmappedToLatest(a, event, t) ==
    IF ~Has(event, "delta") THEN Skipped(a)
    ELSE LET delta == event.delta
         IN  IF delta.type = "text_delta"
             THEN Emitted(a, DataJson(createStreamChunk(
                      [id |-> a.completionId, model |-> StreamModel] @@
                      (IF Has(delta, "text") THEN "content" :> delta.text ELSE <<>>), t)))
             ELSE IF delta.type = "input_json_delta"
             THEN Emitted(a, DataJson(createStreamChunk(
                      [id |-> a.completionId, model |-> StreamModel,
                       toolCalls |-> <<[index |-> IF event.index \in DOMAIN a.toolCallMap
                                                  THEN a.toolCallMap[event.index]
                                                  ELSE a.currentToolIndex,
                                        function |-> [arguments |-> delta.partial_json]]>>], t)))
             ELSE Skipped(a)

(* case 'content_block_delta' *)
onContentBlockDelta(a, event, t) ==
    IF ~Has(event, "delta") THEN Skipped(a)
    ELSE LET delta == event.delta
         IN  IF delta.type = "text_delta"
             THEN Emitted(a, DataJson(createStreamChunk(
                      [id |-> a.completionId, model |-> StreamModel] @@
                      (IF Has(delta, "text") THEN "content" :> delta.text ELSE <<>>), t)))
             ELSE IF delta.type = "input_json_delta" /\ event.index \in DOMAIN a.toolCallMap
             THEN Emitted(a, DataJson(createStreamChunk(
                      [id |-> a.completionId, model |-> StreamModel,
                       toolCalls |-> <<[index |-> a.toolCallMap[event.index],
                                        function |-> [arguments |-> delta.partial_json]]>>], t)))
             ELSE Skipped(a)

(* variant: the backend's stop reason is passed through *)
FinishReason_passedThrough(stopReason) == stopReason

(* let finishReason = 'stop'; max_tokens -> 'length'; tool_use -> 'tool_calls' *)
FinishReason(stopReason) ==
    IF stopReason = "max_tokens" THEN "length"
    ELSE IF stopReason = "tool_use" THEN "tool_calls"
    ELSE "stop"

(* case 'message_delta' *)
onMessageDelta(a, event, t) ==
    IF Has(event, "delta") /\ Has(event.delta, "stop_reason") /\ event.delta.stop_reason # ""
    THEN Emitted(a, DataJson(createStreamChunk(
             [id |-> a.completionId, model |-> StreamModel,
              finishReason |-> FinishReason(event.delta.stop_reason)], t)))
    ELSE Skipped(a)

(* case 'message_stop' *)
onMessageStop(a) == Emitted(a, DataText(createDoneMarker))

(* case 'error' *)
onError(a, event) ==
    LET given(f) == Has(event, "error") /\ Has(event.error, f) /\ event.error[f] # ""
    IN  Emitted(a, DataJson(
            [error |-> [message |-> IF given("message") THEN event.error.message
                                    ELSE "Unknown error",
                        type |-> IF given("type") THEN event.error.type ELSE "server_error",
                        code |-> Null]]))

(* adapter.getId() *)
getId(a) == a.completionId

(* adapter.transform(event) *)
transform(a, event, t) ==
    IF ~Has(event, "type") \/ event.type = "" THEN Skipped(a)
    ELSE CASE event.type = "message_start" -> onMessageStart(a, t)
           [] event.type = "content_block_start" -> onContentBlockStart(a, event, t)
           [] event.type = "content_block_delta" -> onContentBlockDelta(a, event, t)
           [] event.type = "content_block_stop" -> Skipped(a)
           [] event.type = "message_delta" -> onMessageDelta(a, event, t)
           [] event.type = "message_stop" -> onMessageStop(a)
           [] event.type = "ping" -> Skipped(a)
           [] event.type = "error" -> onError(a, event)
           [] OTHER -> Skipped(a)

(* Backend events *)

MessageStart == [type |-> "message_start"]
TextBlockStart(i) ==
    [type |-> "content_block_start", index |-> i, content_block |-> [type |-> "text"]]
ToolStart(i, id, name) ==
    [type |-> "content_block_start", index |-> i,
     content_block |-> [type |-> "tool_use", id |-> id, name |-> name]]
ToolBlockStart(i) == ToolStart(i, "toolu_01", "get_weather")
TextDelta(i, text) ==
    [type |-> "content_block_delta", index |-> i,
     delta |-> [type |-> "text_delta", text |-> text]]
JsonDelta(i, json) ==
    [type |-> "content_block_delta", index |-> i,
     delta |-> [type |-> "input_json_delta", partial_json |-> json]]
ThinkingDelta(i) ==
    [type |-> "content_block_delta", index |-> i,
     delta |-> [type |-> "thinking_delta", thinking |-> "hm"]]
BlockStop(i) == [type |-> "content_block_stop", index |-> i]
MessageDelta(stopReason) == [type |-> "message_delta", delta |-> [stop_reason |-> stopReason]]
UsageDelta == [type |-> "message_delta", usage |-> [output_tokens |-> 7]]
MessageStop == [type |-> "message_stop"]
Ping == [type |-> "ping"]
ErrorEvent ==
    [type |-> "error", error |-> [type |-> "overloaded_error", message |-> "Overloaded"]]
BareError == [type |-> "error"]
Untyped == [index |-> 0]
Unknown == [type |-> "content_block_flush"]

Texts == {"Hi", " there"}
StopReasons == {"end_turn", "max_tokens", "tool_use", "stop_sequence"}

Events ==
    {MessageStart, TextBlockStart(0), ToolBlockStart(1), BlockStop(0),
     ToolStart(2, "toolu_02", "get_time"), JsonDelta(2, "{\"tz\":"),
     JsonDelta(1, "{}"), JsonDelta(2, "{}"), ThinkingDelta(0), UsageDelta,
     MessageStop, Ping, ErrorEvent, BareError, Untyped, Unknown}
    \cup {TextDelta(0, text) : text \in Texts}
    \cup {MessageDelta(r) : r \in StopReasons}

(* message_start, content_block_start(text), the text deltas,              *)
(* content_block_stop, message_delta(stop_reason), message_stop            *)
TextStream(texts, stopReason) ==
    <<MessageStart, TextBlockStart(0)>>
    \o [i \in 1..Len(texts) |-> TextDelta(0, texts[i])]
    \o <<BlockStop(0), MessageDelta(stopReason), MessageStop>>

RECURSIVE SeqsUpTo(_, _)
SeqsUpTo(S, n) ==
    IF n = 0 THEN {<<>>}
    ELSE LET shorter == SeqsUpTo(S, n - 1)
         IN  shorter \cup {Append(s, x) : s \in shorter, x \in S}

TextStreams ==
    {TextStream(texts, r) : texts \in SeqsUpTo(Texts, MaxDeltas), r \in StopReasons}

IsPrefix(s, t) == Len(s) <= Len(t) /\ SubSeq(t, 1, Len(s)) = s

InitStreaming ==
    /\ InitBase
    /\ \E id \in CompletionIds : adapter = createOpenAIStreamAdapter(id)
    /\ feed = <<>>
    /\ frames = <<>>
    /\ streamDone = FALSE
    /\ recorded = <<>>
    /\ InitPoolIdle /\ InitPairIdle /\ InitDbIdle

(* one turn of `for await (const event of anthropicStream)` *)
StreamEvent(event) ==
    /\ ~streamDone
    /\ \/ Len(feed) < MaxStreamLen
       \/ \E s \in TextStreams : IsPrefix(Append(feed, event), s)
    /\ LET r == transform(adapter, event, now)
       IN  /\ adapter' = r.adapter
           /\ frames' = IF r.out # Null THEN Append(frames, r.out) ELSE frames
    /\ feed' = Append(feed, event)
    /\ UNCHANGED <<now, rateLimitStore, recorded, res, streamDone>>
    /\ KeyFrame /\ ReqFrame
    /\ PoolFrame /\ PairFrame /\ DbFrame

(* the backend stream is exhausted: the loop ends and the generator returns *)
StreamEnd ==
    /\ ~streamDone
    /\ streamDone' = TRUE
    /\ UNCHANGED <<now, rateLimitStore, recorded, res, adapter, feed, frames>>
    /\ KeyFrame /\ ReqFrame
    /\ PoolFrame /\ PairFrame /\ DbFrame

NextStream ==
    \/ \E event \in Events : StreamEvent(event)
    \/ StreamEnd

SpecStream == InitStreaming /\ [][NextStream]_vars

-----------------------------------------------------------------------------
(* The transcoded stream *)

(* the frames a client reads, written out field by field *)
ChunkFrame(delta, finishReason) ==
    [sse |-> "data",
     json |-> [id |-> adapter.completionId, object |-> "chat.completion.chunk", created |-> 0,
               model |-> StreamModel, system_fingerprint |-> Null,
               choices |-> <<[index |-> 0, delta |-> delta, logprobs |-> Null,
                             finish_reason |-> finishReason]>>]]
RoleFrame == ChunkFrame([role |-> "assistant"], NullStr)
ContentFrame(text) == ChunkFrame([content |-> text], NullStr)
FinishFrame(reason) == ChunkFrame(<<>>, reason)
DoneFrame == [sse |-> "data", text |-> "[DONE]"]

MappedReason(stopReason) ==
    CASE stopReason = "max_tokens" -> "length"
      [] stopReason = "tool_use" -> "tool_calls"
      [] stopReason \in {"end_turn", "stop_sequence"} -> "stop"

ExampleStream == TextStream(<<"Hi", " there">>, "end_turn")

(* C17: once a well-formed text-only stream with k text deltas has been    *)
(* fed, the frames are exactly one role-only frame, the k delta texts in   *)
(* input order, one finish frame with the mapped reason and [DONE]; the    *)
(* deltas "Hi", " there" with end_turn give role, "Hi", " there", "stop",  *)
(* [DONE].                                                                 *)
C17_TextStreamFrames ==
    /\ \A texts \in SeqsUpTo(Texts, MaxDeltas), r \in StopReasons :
         feed = TextStream(texts, r) =>
             frames = <<RoleFrame>>
                      \o [i \in 1..Len(texts) |-> ContentFrame(texts[i])]
                      \o <<FinishFrame(MappedReason(r)), DoneFrame>>
    /\ feed = ExampleStream =>
         frames = <<RoleFrame, ContentFrame("Hi"), ContentFrame(" there"),
                    FinishFrame("stop"), DoneFrame>>

(* the example stream has been fed to its end *)
C17_Witness ==
    /\ feed = ExampleStream
    /\ Len(frames) = 5
    /\ frames[5] = DoneFrame

IsDone(frame) == frame = DoneFrame
IsErrorFrame(frame) == Has(frame, "json") /\ Has(frame.json, "error")
CarriesRole(frame) ==
    /\ Has(frame, "json")
    /\ Has(frame.json, "choices")
    /\ Has(frame.json.choices[1].delta, "role")

Count(seq, P(_)) == Cardinality({i \in 1..Len(seq) : P(seq[i])})

(* C18: whatever events the backend stream held, the frames of a finished  *)
(* stream end with `data: [DONE]`, the marker occurs exactly once, and at  *)
(* no time is a frame emitted after it.                                    *)
C18_SentinelTerminated ==
    /\ \A i \in 1..(Len(frames) - 1) : ~IsDone(frames[i])
    /\ streamDone =>
         /\ frames # <<>>
         /\ IsDone(frames[Len(frames)])
         /\ Count(frames, IsDone) = 1

IsErrorEvent(event) == Has(event, "type") /\ event.type = "error"
IsMessageStart(event) == Has(event, "type") /\ event.type = "message_start"

(* C19: once the backend stream has held an error event, the frames hold   *)
(* exactly one error frame and it is the last frame: no event after the    *)
(* error produced one.                                                     *)
C19_ErrorTerminates ==
    Count(feed, IsErrorEvent) > 0 =>
        /\ Count(frames, IsErrorFrame) = 1
        /\ IsErrorFrame(frames[Len(frames)])

(* the frames a step has added *)
Added == SubSeq(frames', Len(frames) + 1, Len(frames'))

(* C20: the first message_start of a stream produces the role-only frame   *)
(* and no other event produces a frame that carries a role.                *)
C20_RoleAtMostOnce ==
    [][feed' # feed =>
         LET event == feed'[Len(feed')]
         IN  IF IsMessageStart(event) /\ Count(feed, IsMessageStart) = 0
             THEN Added = <<RoleFrame>>
             ELSE Count(Added, CarriesRole) = 0]_vars

(* two message_start events were fed and one role frame was emitted *)
C20_Witness ==
    /\ Count(feed, IsMessageStart) >= 2
    /\ Count(frames, CarriesRole) = 1

-----------------------------------------------------------------------------
(* The completion id and the tool-call frames of a stream *)

IsChunkFrame(frame) == Has(frame, "json") /\ Has(frame.json, "choices")
IsJsonFrame(frame) == Has(frame, "json")

(* C21 as stated: every JSON frame of the stream, the error frames         *)
(* included, holds the id getId() returns.                                 *)
C21_SingleCompletionId ==
    \A i \in 1..Len(frames) :
        IsJsonFrame(frames[i]) =>
            /\ Has(frames[i].json, "id")
            /\ frames[i].json.id = getId(adapter)

(* C21, amended: every chunk frame of the stream (role, content, tool-call *)
(* and finish frames) holds the same id, the one getId() returns at any    *)
(* later time; an error frame holds the error object alone and no id.      *)
C21_SingleCompletionIdOfChunks ==
    \A i \in 1..Len(frames) :
        /\ IsChunkFrame(frames[i]) =>
             /\ Has(frames[i].json, "id")
             /\ frames[i].json.id = getId(adapter)
             /\ getId(adapter) \in CompletionIds
        /\ IsErrorFrame(frames[i]) => DOMAIN frames[i].json = {"error"}

(* a stream that drew the second id has emitted a role frame, a tool-call  *)
(* frame and an error frame                                                *)
C21_Witness ==
    /\ getId(adapter) # CompletionId
    /\ Len(frames) = 3
    /\ CarriesRole(frames[1])
    /\ IsChunkFrame(frames[2]) /\ Has(frames[2].json.choices[1].delta, "tool_calls")
    /\ IsErrorFrame(frames[3])

IsToolStart(event) ==
    /\ Has(event, "type") /\ event.type = "content_block_start"
    /\ Has(event, "content_block") /\ event.content_block.type = "tool_use"
IsJsonDelta(event) ==
    /\ Has(event, "type") /\ event.type = "content_block_delta"
    /\ Has(event, "delta") /\ event.delta.type = "input_json_delta"

(* the tool_use starts among the first i events, and the positions of      *)
(* those that opened backend block b                                       *)
ToolStartsBefore(i) == Cardinality({j \in 1..(i - 1) : IsToolStart(feed[j])})
OpenedAt(b) == {j \in 1..Len(feed) : IsToolStart(feed[j]) /\ feed[j].index = b}
Latest(S) == CHOOSE j \in S : \A k \in S : k <= j

ToolOpenFrame(n, id, name) ==
    ChunkFrame([tool_calls |-> <<[index |-> n, id |-> id, type |-> "function",
                                  function |-> [name |-> name, arguments |-> ""]]>>],
               NullStr)
ToolArgsFrame(n, json) ==
    ChunkFrame([tool_calls |-> <<[index |-> n, function |-> [arguments |-> json]]>>],
               NullStr)

(* C22: the n-th tool_use content_block_start of a stream (n from 0) emits *)
(* one frame with output index n, the block's id and name and empty        *)
(* arguments; an input_json_delta for a backend block that a tool_use      *)
(* start has opened emits one arguments frame whose index is that of the   *)
(* latest such start, with the partial JSON as given; one for a block      *)
(* never opened emits nothing.                                             *)
C22_ToolIndexing ==
    [][feed' # feed =>
         LET event == feed'[Len(feed')]
         IN  /\ IsToolStart(event) =>
                  Added = <<ToolOpenFrame(ToolStartsBefore(Len(feed) + 1),
                                          event.content_block.id,
                                          event.content_block.name)>>
             /\ (IsJsonDelta(event) /\ OpenedAt(event.index) # {}) =>
                  Added = <<ToolArgsFrame(ToolStartsBefore(Latest(OpenedAt(event.index))),
                                          event.delta.partial_json)>>
             /\ (IsJsonDelta(event) /\ OpenedAt(event.index) = {}) => Added = <<>>]_vars

(* backend block 2 was opened twice (output indices 0 and 1) and its       *)
(* arguments delta went to index 1                                         *)
C22_Witness ==
    /\ Len(feed) = 3
    /\ IsToolStart(feed[1]) /\ feed[1].index = 2
    /\ IsToolStart(feed[2]) /\ feed[2].index = 2
    /\ IsJsonDelta(feed[3]) /\ feed[3].index = 2
    /\ Len(frames) = 3
    /\ frames[3].json.choices[1].delta.tool_calls[1].index = 1
    /\ frames[3].json.choices[1].delta.tool_calls[1].function.arguments = "{\"tz\":"

-----------------------------------------------------------------------------
(* The response converter (format/openai/response-converter.js).  A backend *)
(* response is a record; its content is an array of blocks.  A JSON value   *)
(* is [t |-> "str" | "num" | "obj", v |-> ...], an object's v being the     *)
(* sequence of its members [k |-> key, v |-> value] in insertion order.     *)

MaxBlocks == 3

JStr(s) == [t |-> "str", v |-> s]
JNum(n) == [t |-> "num", v |-> n]
JObj(members) == [t |-> "obj", v |-> members]

(* a JSON value as a JavaScript condition: '' and 0 are falsy, every object *)
(* is truthy                                                                *)
JTruthy(value) ==
    CASE value.t = "str" -> value.v # ""
      [] value.t = "num" -> value.v # 0
      [] value.t = "obj" -> TRUE

DigitChars == <<"0", "1", "2", "3", "4", "5", "6", "7", "8", "9">>

(* String(n) for a natural number *)
RECURSIVE NumberToString(_)
NumberToString(n) ==
    IF n < 10 THEN DigitChars[n + 1]
    ELSE NumberToString(n \div 10) \o DigitChars[(n % 10) + 1]

(* JSON.stringify(value) written out as text, for strings that need no    *)
(* escaping; StringifyMembers                                              *)
(* writes the members from the i-th on, separated by commas                *)
RECURSIVE StringifyValue(_), StringifyMembers(_, _)
StringifyValue(value) ==
    CASE value.t = "str" -> "\"" \o value.v \o "\""
      [] value.t = "num" -> NumberToString(value.v)
      [] value.t = "obj" -> "{" \o StringifyMembers(value.v, 1) \o "}"
StringifyMembers(members, i) ==
    IF i > Len(members) THEN ""
    ELSE "\"" \o members[i].k \o "\":" \o StringifyValue(members[i].v)
         \o (IF i < Len(members) THEN "," ELSE "") \o StringifyMembers(members, i + 1)

(* textParts.join('') *)
RECURSIVE JoinTexts(_)
JoinTexts(parts) ==
    IF parts = <<>> THEN "" ELSE Head(parts) \o JoinTexts(Tail(parts))

(* variant: a tool_use stop is reported as a plain stop *)
StopReasonToFinish_toolUseAsStop(response) ==
    IF Has(response, "stop_reason") /\ response.stop_reason = "max_tokens" THEN "length"
    ELSE "stop"

(* let finishReason = 'stop'; ... (convertAnthropicToOpenAI) *)
StopReasonToFinish(response) ==
    IF Has(response, "stop_reason") /\ response.stop_reason = "max_tokens" THEN "length"
    ELSE IF Has(response, "stop_reason") /\ response.stop_reason = "tool_use" THEN "tool_calls"
    ELSE IF Has(response, "stop_reason") /\ response.stop_reason = "end_turn" THEN "stop"
    ELSE "stop"

TokensOr0_cacheIgnored(usage, field) ==
    IF Has(usage, field) /\ field # "cache_read_input_tokens" THEN usage[field] ELSE 0
(* usage.<field> || 0 *)
TokensOr0(usage, field) == IF Has(usage, field) THEN usage[field] ELSE 0

(* the tool_use blocks before position i that have no id: each of them has *)
(* drawn random bytes for its call id                                      *)
DrawsBefore(content, i) ==
    Cardinality({j \in 1..(i - 1) :
                   content[j].type = "tool_use"
                   /\ ~(Has(content[j], "id") /\ content[j].id # "")})

(* variant: thinking blocks are shown as text *)
TextOfBlock_thinkingShown(block) ==
    IF block.type = "text" THEN (IF Has(block, "text") THEN <<block.text>> ELSE <<"">>)
    ELSE IF block.type = "thinking" THEN <<block.thinking>>
    ELSE <<>>

(* if (block.type === 'text') textParts.push(block.text) *)
TextOfBlock(block) ==
    IF block.type = "text" THEN (IF Has(block, "text") THEN <<block.text>> ELSE <<"">>)
    ELSE <<>>

(* variant: every call id is drawn afresh *)
ToolCallOfBlock_freshId(block, random) ==
    [id |-> "call_" \o random,
     type |-> "function",
     function |-> [name |-> block.name,
                   arguments |-> StringifyValue(IF Has(block, "input") /\ JTruthy(block.input)
                                               THEN block.input
                                               ELSE JObj(<<>>))]]

(* toolCalls.push({id: block.id || `call_${...}`, type, function}), the *)
(* arguments being JSON.stringify(block.input || {})                    *)
ToolCallOfBlock(block, random) ==
    [id |-> IF Has(block, "id") /\ block.id # "" THEN block.id ELSE "call_" \o random,
     type |-> "function",
     function |-> [name |-> block.name,
                   arguments |-> StringifyValue(IF Has(block, "input") /\ JTruthy(block.input)
                                               THEN block.input
                                               ELSE JObj(<<>>))]]

(* convertAnthropicToOpenAI(anthropicResponse, requestModel): random gives *)
(* the bytes crypto.randomBytes returns, random.id for the completion id   *)
(* and random.calls[k] for the k-th call id drawn; t is Date.now()         *)
convertAnthropicToOpenAI(anthropicResponse, requestModel, random, t) ==
    LET content == IF Has(anthropicResponse, "content")
                   THEN anthropicResponse.content.arr ELSE <<>>
        RECURSIVE textParts(_)
        textParts(i) ==
            IF i > Len(content) THEN <<>>
            ELSE TextOfBlock(content[i]) \o textParts(i + 1)
        RECURSIVE toolCalls(_)
        toolCalls(i) ==
            IF i > Len(content) THEN <<>>
            ELSE (IF content[i].type = "tool_use"
                  THEN <<ToolCallOfBlock(content[i],
                                         random.calls[DrawsBefore(content, i) + 1])>>
                  ELSE <<>>) \o toolCalls(i + 1)
        textContent == JoinTexts(textParts(1))
        message ==
            [role |-> "assistant",
             content |-> IF textContent # "" THEN textContent ELSE NullStr]
            @@ (IF Len(toolCalls(1)) > 0 THEN "tool_calls" :> toolCalls(1) ELSE <<>>)
        usage == IF Has(anthropicResponse, "usage") THEN anthropicResponse.usage ELSE <<>>
        prompt == TokensOr0(usage, "input_tokens") + TokensOr0(usage, "cache_read_input_tokens")
    IN  [id |-> "chatcmpl-" \o random.id,
         object |-> "chat.completion",
         created |-> t \div SecondMs,
         model |-> requestModel,
         choices |-> <<[index |-> 0, message |-> message, logprobs |-> Null,
                        finish_reason |-> StopReasonToFinish(anthropicResponse)]>>,
         usage |-> [prompt_tokens |-> prompt,
                    completion_tokens |-> TokensOr0(usage, "output_tokens"),
                    total_tokens |-> prompt + TokensOr0(usage, "output_tokens")],
         system_fingerprint |-> Null]

(* Backend responses *)

TextBlock(text) == [type |-> "text", text |-> text]
ThinkingBlock(thinking) == [type |-> "thinking", thinking |-> thinking]
ToolUseBlock(id, name, input) == [type |-> "tool_use", id |-> id, name |-> name, input |-> input]
ParisInput == JObj(<<[k |-> "city", v |-> JStr("Paris")], [k |-> "days", v |-> JNum(12)]>>)
WeatherBlock == ToolUseBlock("toolu_01", "get_weather", ParisInput)
(* a tool_use block that has neither an id nor an input *)
BareToolBlock == [type |-> "tool_use", name |-> "get_time"]
(* inputs that are no objects: 0 and '' are falsy, 5 and 'x' are not *)
ScalarInputs == {JNum(0), JStr(""), JNum(5), JStr("x")}
ScalarToolBlock(input) == ToolUseBlock("toolu_05", "f", input)

Blocks ==
    {TextBlock("Hello"), TextBlock(" world"), TextBlock(""),
     ThinkingBlock("hm"), WeatherBlock, BareToolBlock}

Usages == {[input_tokens |-> 10, cache_read_input_tokens |-> 5, output_tokens |-> 7]}
(* usage objects in which some counters are absent *)
PartialUsages == {[input_tokens |-> 10], [output_tokens |-> 7],
                  [cache_read_input_tokens |-> 5],
                  [input_tokens |-> 10, output_tokens |-> 7],
                  [input_tokens |-> 3, cache_read_input_tokens |-> 5]}

Responses ==
    {[content |-> [arr |-> blocks], stop_reason |-> r] @@ extra :
        blocks \in SeqsUpTo(Blocks, MaxBlocks),
        r \in {"end_turn", "tool_use"},
        extra \in {<<>>} \cup {[usage |-> u] : u \in Usages}}
    \cup {[stop_reason |-> "max_tokens"], [content |-> [arr |-> <<TextBlock("Hello")>>]]}
    \cup {[content |-> [arr |-> <<TextBlock("Hello")>>], stop_reason |-> "end_turn",
           usage |-> u] : u \in PartialUsages}
    \cup {[content |-> [arr |-> <<ThinkingBlock("hm"), TextBlock("Hello"),
                                  ScalarToolBlock(input)>>],
           stop_reason |-> "tool_use"] : input \in ScalarInputs}

RandomHex == {"5f1c", "a07e"}
Randoms == {[id |-> id, calls |-> calls] :
              id \in RandomHex, calls \in [1..MaxBlocks -> RandomHex]}
RespClockPoints == {0, SecondMs}

InitResp ==
    /\ InitArgs
    /\ res \in {[op |-> "args", anthropicResponse |-> r, requestModel |-> StreamModel,
                 calls |-> 0] : r \in Responses}

(* one call of convertAnthropicToOpenAI on the response; the result of the *)
(* call before it is kept for comparison                                   *)
ConvertResponse(random, t) ==
    /\ res.calls < 2
    /\ t >= now
    /\ now' = t
    /\ res' = [op |-> "convertAnthropicToOpenAI",
               anthropicResponse |-> res.anthropicResponse,
               requestModel |-> res.requestModel,
               calls |-> res.calls + 1,
               ret |-> convertAnthropicToOpenAI(res.anthropicResponse, res.requestModel,
                                                random, t),
               prev |-> IF res.calls = 0 THEN Null ELSE res.ret]
    /\ UNCHANGED <<rateLimitStore, recorded>>
    /\ KeyFrame /\ StreamFrame /\ ReqFrame
    /\ PoolFrame /\ PairFrame /\ DbFrame

NextResp == \E random \in Randoms, t \in RespClockPoints : ConvertResponse(random, t)

SpecResp == InitResp /\ [][NextResp]_vars

-----------------------------------------------------------------------------
(* The converted response *)

IsMessageDelta(event) == Has(event, "type") /\ event.type = "message_delta"
StopReasonOf(event) ==
    IF Has(event, "delta") /\ Has(event.delta, "stop_reason")
    THEN event.delta.stop_reason ELSE ""

(* the finish-reason table *)
FinishTable(stopReason) ==
    CASE stopReason = "max_tokens" -> "length"
      [] stopReason = "tool_use" -> "tool_calls"
      [] OTHER -> "stop"

(* C23: a message_delta with stop reason r emits one finish frame whose    *)
(* finish_reason is the table's entry for r (max_tokens: length, tool_use: *)
(* tool_calls, any other: stop), and convertAnthropicToOpenAI gives a      *)
(* response with stop reason r the same finish_reason; a message_delta     *)
(* without a stop reason emits no frame.                                   *)
C23_OneFinishReasonTable ==
    [][feed' # feed =>
         LET event == feed'[Len(feed')]
             r == StopReasonOf(event)
         IN  IsMessageDelta(event) =>
                 IF r # ""
                 THEN /\ Added = <<FinishFrame(FinishTable(r))>>
                      /\ \A random \in Randoms, extra \in {<<>>, [content |-> [arr |-> <<>>]]} :
                           convertAnthropicToOpenAI([stop_reason |-> r] @@ extra,
                                                    StreamModel, random, now)
                               .choices[1].finish_reason = FinishTable(r)
                 ELSE Added = <<>>]_vars

(* a tool_use stop and a usage-only message_delta were fed: one finish     *)
(* frame, tool_calls                                                       *)
C23_Witness ==
    /\ feed = <<MessageDelta("tool_use"), UsageDelta>>
    /\ frames = <<FinishFrame("tool_calls")>>

IsText(block) == block.type = "text"
IsToolUse(block) == block.type = "tool_use"
IsThinking(block) == block.type = "thinking"

ContentOf(response) == IF Has(response, "content") THEN response.content.arr ELSE <<>>

(* the texts of the text blocks from the i-th block on, one after another *)
RECURSIVE TextFrom(_, _)
TextFrom(blocks, i) ==
    IF i > Len(blocks) THEN ""
    ELSE (IF IsText(blocks[i]) THEN blocks[i].text ELSE "") \o TextFrom(blocks, i + 1)

(* the JSON text of an input *)
JsonText(input) ==
    CASE input = ParisInput -> "{\"city\":\"Paris\",\"days\":12}"
      [] input = JNum(0) -> "0"
      [] input = JNum(5) -> "5"
      [] input = JStr("") -> "\"\""
      [] input = JStr("x") -> "\"x\""
      [] OTHER -> "?"

(* the input of a tool_use block as JSON text *)
EncodedInput(block) ==
    IF ~Has(block, "input") THEN "{}" ELSE JsonText(block.input)

(* ... an input of 0 or '' counting as no input *)
EncodedInputOrEmpty(block) ==
    IF ~Has(block, "input") \/ block.input \in {JNum(0), JStr("")} THEN "{}"
    ELSE JsonText(block.input)

WithoutThinking(response) ==
    IF Has(response, "content")
    THEN [response EXCEPT !.content = [arr |-> SelectSeq(@.arr, LAMBDA b : ~IsThinking(b))]]
    ELSE response

(* what C29 says of a converted response, `encoded` giving the arguments *)
(* expected for a tool_use block                                         *)
ByBlockType(encoded(_)) ==
    res.op = "convertAnthropicToOpenAI" =>
        LET blocks == ContentOf(res.anthropicResponse)
            tools == SelectSeq(blocks, IsToolUse)
            message == res.ret.choices[1].message
        IN  /\ message.content =
                 (IF TextFrom(blocks, 1) = "" THEN NullStr ELSE TextFrom(blocks, 1))
            /\ tools = <<>> => ~Has(message, "tool_calls")
            /\ tools # <<>> =>
                 /\ Has(message, "tool_calls")
                 /\ Len(message.tool_calls) = Len(tools)
                 /\ \A k \in 1..Len(tools) :
                      /\ message.tool_calls[k].type = "function"
                      /\ message.tool_calls[k].function.name = tools[k].name
                      /\ message.tool_calls[k].function.arguments = encoded(tools[k])
                      /\ Has(tools[k], "id") => message.tool_calls[k].id = tools[k].id
            /\ \A random \in Randoms :
                 WithoutThinking(res.anthropicResponse) # res.anthropicResponse =>
                 LET with == convertAnthropicToOpenAI(res.anthropicResponse,
                                                      res.requestModel, random, now)
                     without == convertAnthropicToOpenAI(WithoutThinking(res.anthropicResponse),
                                                         res.requestModel, random, now)
                 IN  /\ with.choices = without.choices
                     /\ with.usage = without.usage

(* C29: the message content is the texts of the text blocks in order, one  *)
(* after another, and null when they give no text; tool_calls has one      *)
(* entry per tool_use block, in order, with the block's name and its input *)
(* as JSON text, and is absent without tool_use blocks; the response       *)
(* without its thinking blocks converts to the same message, finish reason *)
(* and usage.                                                              *)
C29_ResponseByBlockType == ByBlockType(EncodedInput)

(* C29, the part the code keeps: as C29, except that the arguments of a   *)
(* tool_use block whose input is 0 or '' are the text {}, as they are for *)
(* a block without input.                                                 *)
C29_ResponseByBlockTypeOrEmpty == ByBlockType(EncodedInputOrEmpty)

(* a response with a text block, a thinking block and a tool_use block of *)
(* input 0 has been converted: the arguments are {}                        *)
C29_WitnessFalsyInput ==
    /\ res.op = "convertAnthropicToOpenAI"
    /\ ContentOf(res.anthropicResponse)
         = <<ThinkingBlock("hm"), TextBlock("Hello"), ScalarToolBlock(JNum(0))>>
    /\ res.ret.choices[1].message.content = "Hello"
    /\ Len(res.ret.choices[1].message.tool_calls) = 1
    /\ res.ret.choices[1].message.tool_calls[1].function.arguments = "{}"

(* a response with a text block, a thinking block and a tool_use block has *)
(* been converted                                                          *)
C29_Witness ==
    /\ res.op = "convertAnthropicToOpenAI"
    /\ ContentOf(res.anthropicResponse) = <<ThinkingBlock("hm"), TextBlock("Hello"), WeatherBlock>>
    /\ res.ret.choices[1].message.content = "Hello"
    /\ Len(res.ret.choices[1].message.tool_calls) = 1

(* a result with its freshly generated top-level fields blanked *)
SansStamp(ret) == [ret EXCEPT !.id = "", !.created = 0]

(* ... and with the ids of the calls whose tool_use block has no id blanked *)
SansDrawnIds(ret, response) ==
    LET tools == SelectSeq(ContentOf(response), IsToolUse)
        message == ret.choices[1].message
    IN  IF ~Has(message, "tool_calls") THEN SansStamp(ret)
        ELSE [SansStamp(ret) EXCEPT !.choices[1].message.tool_calls =
                 [k \in 1..Len(@) |->
                    IF Has(tools[k], "id") THEN @[k] ELSE [@[k] EXCEPT !.id = ""]]]

(* C30 as stated: two conversions of one response with one request model   *)
(* are equal in every field but the top-level id and created.              *)
C30_IdempotentButStamp ==
    (res.op = "convertAnthropicToOpenAI" /\ res.calls = 2) =>
        SansStamp(res.ret) = SansStamp(res.prev)

(* C30, amended: two conversions of one response with one request model    *)
(* are equal in every field but the top-level id and created and the id of *)
(* each tool call whose tool_use block carries no id, which is generated   *)
(* afresh as well.                                                         *)
C30_IdempotentButGenerated ==
    (res.op = "convertAnthropicToOpenAI" /\ res.calls = 2) =>
        SansDrawnIds(res.ret, res.anthropicResponse)
            = SansDrawnIds(res.prev, res.anthropicResponse)

(* a response with a tool_use block that has an id and one that has none   *)
(* was converted twice, a second apart, with different random bytes        *)
C30_Witness ==
    /\ res.op = "convertAnthropicToOpenAI" /\ res.calls = 2
    /\ ContentOf(res.anthropicResponse) = <<TextBlock("Hello"), WeatherBlock, BareToolBlock>>
    /\ res.ret.id # res.prev.id
    /\ res.ret.created # res.prev.created
    /\ res.ret.choices[1].message.tool_calls[2].id # res.prev.choices[1].message.tool_calls[2].id
    /\ res.ret.choices[1].message.tool_calls[1].id = "toolu_01"

-----------------------------------------------------------------------------
(* The request converter (format/openai/request-converter.js).  A JS       *)
(* string that may also be an array is [str |-> s], an array [arr |-> seq], *)
(* a missing value Undefined.  The text of a tool call's arguments is a    *)
(* sequence of characters, and a value JSON.parse returns is [num |-> n],  *)
(* [chars |-> seq] or [members |-> seq of [k |-> chars, v |-> value]].      *)

MaxMessages == 3

Str(s) == [str |-> s]
Arr(seq) == [arr |-> seq]
Undefined == [undef |-> TRUE]
IsStr(x) == Has(x, "str")
IsArr(x) == Has(x, "arr")
Get(obj, field) == IF Has(obj, field) THEN obj[field] ELSE Undefined

(* OPENAI_MODEL_MAP *)
OPENAI_MODEL_MAP ==
    [m \in {"gpt-4", "gpt-4-turbo", "gpt-4-turbo-preview", "gpt-4-0125-preview",
            "gpt-4-1106-preview", "o1", "o1-preview", "claude-3-opus"}
        |-> "claude-opus-4-5-thinking"]
    @@ [m \in {"gpt-4o", "gemini-pro"} |-> "gemini-3-pro-high"]
    @@ [m \in {"gpt-4o-mini", "gpt-3.5-turbo", "gpt-3.5-turbo-0125", "gpt-3.5-turbo-1106",
               "gpt-3.5-turbo-instruct", "claude-3-haiku", "gemini-flash"}
        |-> "gemini-3-flash"]
    @@ [m \in {"o1-mini", "claude-3-sonnet"} |-> "claude-sonnet-4-5-thinking"]

(* OPENAI_MODEL_MAP is a plain object: a lookup by name also finds what it *)
(* inherits from Object.prototype. Of those names only `constructor` (the *)
(* function Object) and `__proto__` (Object.prototype itself) are in      *)
(* lower case; both values are truthy and neither is a model name         *)
ObjectPrototype ==
    ("constructor" :> [function |-> "Object"])
    @@ ("__proto__" :> [object |-> "Object.prototype"])

(* mapModel(openaiModel), for names in lower case *)
mapModel(openaiModel) ==
    IF openaiModel = "" THEN "gemini-3-flash"
    ELSE IF openaiModel \in DOMAIN OPENAI_MODEL_MAP THEN OPENAI_MODEL_MAP[openaiModel]
    ELSE IF openaiModel \in DOMAIN ObjectPrototype THEN ObjectPrototype[openaiModel]
    ELSE openaiModel

(* texts.join(separator) *)
RECURSIVE JoinWith(_, _)
JoinWith(texts, separator) ==
    IF texts = <<>> THEN ""
    ELSE IF Len(texts) = 1 THEN texts[1]
    ELSE texts[1] \o separator \o JoinWith(Tail(texts), separator)

(* content.filter(part => part.type === 'text').map(part => part.text) *)
RECURSIVE TextsOfParts(_)
TextsOfParts(parts) ==
    IF parts = <<>> THEN <<>>
    ELSE (IF parts[1].type = "text" THEN <<parts[1].text>> ELSE <<>>)
         \o TextsOfParts(Tail(parts))

(* extractContent(content) *)
extractContent(content) ==
    IF IsStr(content) THEN content.str
    ELSE IF IsArr(content) THEN JoinWith(TextsOfParts(content.arr), "\n")
    ELSE ""

(* imageUrl.match(/^data:([^;]+);base64,(.+)$/), the URL given by its      *)
(* parts and its payload character by character: `.` matches no line      *)
(* terminator, so a payload that holds one does not match                 *)
DataUrlMatch(url) ==
    /\ url.scheme = "data"
    /\ url.mediaType # ""
    /\ url.encoding = "base64"
    /\ url.payload # <<>>
    /\ \A i \in 1..Len(url.payload) : DotMatches(url.payload[i])

(* one turn of the loop of convertOpenAIContent: what the part pushes *)
ConvertPart(part) ==
    IF part.type = "text" THEN <<[type |-> "text", text |-> part.text]>>
    ELSE IF part.type = "image_url"
              /\ Has(part, "image_url") /\ Has(part.image_url, "url")
              /\ DataUrlMatch(part.image_url.url)
    THEN <<[type |-> "image",
            source |-> [type |-> "base64",
                        media_type |-> part.image_url.url.mediaType,
                        data |-> part.image_url.url.payload]]>>
    ELSE <<>>

RECURSIVE ConvertParts(_)
ConvertParts(parts) ==
    IF parts = <<>> THEN <<>> ELSE ConvertPart(parts[1]) \o ConvertParts(Tail(parts))

(* convertOpenAIContent(content) *)
convertOpenAIContent(content) ==
    IF IsStr(content) THEN content
    ELSE IF IsArr(content)
    THEN LET anthropicContent == ConvertParts(content.arr)
         IN  IF Len(anthropicContent) = 1 /\ anthropicContent[1].type = "text"
             THEN Str(anthropicContent[1].text)
             ELSE Arr(anthropicContent)
    ELSE content

(* JSON.parse, for texts over JsonChars: no comma, no escape, no letter    *)
(* that starts a literal                                                   *)
JsonChars == {"{", "}", "\"", ":", "a", "1", "2", " "}
JsonDigits == {"1", "2"}

PNum(n) == [num |-> n]
PStr(chars) == [chars |-> chars]
PObj(members) == [members |-> members]

ParseFail == [ok |-> FALSE]
ParseOk(val, next) == [ok |-> TRUE, val |-> val, next |-> next]

RECURSIVE SkipWs(_, _)
SkipWs(s, i) == IF i <= Len(s) /\ s[i] = " " THEN SkipWs(s, i + 1) ELSE i

(* the position of the first quote at or after i, 0 if there is none *)
RECURSIVE CloseQuote(_, _)
CloseQuote(s, i) ==
    IF i > Len(s) THEN 0 ELSE IF s[i] = "\"" THEN i ELSE CloseQuote(s, i + 1)

(* s[i] is a quote *)
ParseString(s, i) ==
    LET q == CloseQuote(s, i + 1)
    IN  IF q = 0 THEN ParseFail ELSE ParseOk(PStr(SubSeq(s, i + 1, q - 1)), q + 1)

RECURSIVE EndOfDigits(_, _)
EndOfDigits(s, i) ==
    IF i <= Len(s) /\ s[i] \in JsonDigits THEN EndOfDigits(s, i + 1) ELSE i

RECURSIVE DecimalValue(_)
DecimalValue(digits) ==
    IF digits = <<>> THEN 0
    ELSE DecimalValue(SubSeq(digits, 1, Len(digits) - 1)) * 10
         + (IF digits[Len(digits)] = "1" THEN 1 ELSE 2)

RECURSIVE ParseValue(_, _)
ParseValue(s, i) ==
    LET j == SkipWs(s, i)
    IN  IF j > Len(s) THEN ParseFail
        ELSE IF s[j] = "{"
        THEN LET k == SkipWs(s, j + 1)
             IN  IF k <= Len(s) /\ s[k] = "}" THEN ParseOk(PObj(<<>>), k + 1)
                 ELSE IF k <= Len(s) /\ s[k] = "\""
                 THEN LET key == ParseString(s, k)
                          c == SkipWs(s, key.next)
                          v == ParseValue(s, c + 1)
                          e == SkipWs(s, v.next)
                      IN  IF ~key.ok THEN ParseFail
                          ELSE IF c > Len(s) \/ s[c] # ":" THEN ParseFail
                          ELSE IF ~v.ok THEN ParseFail
                          ELSE IF e <= Len(s) /\ s[e] = "}"
                          THEN ParseOk(PObj(<<[k |-> key.val.chars, v |-> v.val]>>), e + 1)
                          ELSE ParseFail
                 ELSE ParseFail
        ELSE IF s[j] = "\"" THEN ParseString(s, j)
        ELSE IF s[j] \in JsonDigits
        THEN LET e == EndOfDigits(s, j)
             IN  ParseOk(PNum(DecimalValue(SubSeq(s, j, e - 1))), e)
        ELSE ParseFail

(* JSON.parse(text): ok is FALSE where JSON.parse throws *)
ParseJsonText(text) ==
    LET r == ParseValue(text, 1)
    IN  IF r.ok /\ SkipWs(text, r.next) > Len(text)
        THEN [ok |-> TRUE, val |-> r.val] ELSE ParseFail

(* try { args = JSON.parse(f.arguments || '{}') } catch { args = {raw: f.arguments} } *)
ParseArguments(f) ==
    LET text == IF Has(f, "arguments") /\ f.arguments # <<>> THEN f.arguments
                ELSE <<"{", "}">>
        parsed == ParseJsonText(text)
    IN  IF parsed.ok THEN parsed.val
        ELSE PObj(<<[k |-> <<"r", "a", "w">>, v |-> PStr(f.arguments)]>>)

(* one turn of `for (const toolCall of msg.tool_calls)`: what it pushes *)
ToolUseOfCall(toolCall) ==
    IF Has(toolCall, "type") /\ toolCall.type = "function"
    THEN <<[type |-> "tool_use", id |-> toolCall.id, name |-> toolCall.function.name,
            input |-> ParseArguments(toolCall.function)]>>
    ELSE <<>>

RECURSIVE ToolUsesOfCalls(_)
ToolUsesOfCalls(calls) ==
    IF calls = <<>> THEN <<>> ELSE ToolUseOfCall(calls[1]) \o ToolUsesOfCalls(Tail(calls))

(* content truthy: a non-empty string or any array *)
ContentGiven(content) == IsArr(content) \/ (IsStr(content) /\ content.str # "")

(* convertAssistantMessage(msg) *)
convertAssistantMessage(msg) ==
    LET text == extractContent(Get(msg, "content"))
        textPart == IF ContentGiven(Get(msg, "content")) /\ text # ""
                    THEN <<[type |-> "text", text |-> text]>> ELSE <<>>
        toolUses == IF Has(msg, "tool_calls") /\ IsArr(msg.tool_calls)
                    THEN ToolUsesOfCalls(msg.tool_calls.arr) ELSE <<>>
        legacy == IF Has(msg, "function_call") /\ msg.function_call # Null
                  THEN <<[type |-> "tool_use",
                          id |-> IF Has(msg.function_call, "name") /\ msg.function_call.name # ""
                                 THEN msg.function_call.name ELSE "function",
                          input |-> ParseArguments(msg.function_call)]
                         @@ (IF Has(msg.function_call, "name")
                             THEN "name" :> msg.function_call.name ELSE <<>>)>>
                  ELSE <<>>
        content == textPart \o toolUses \o legacy
    IN  IF Len(content) = 0 THEN Str("")
        ELSE IF Len(content) = 1 /\ content[1].type = "text" THEN Str(content[1].text)
        ELSE Arr(content)

(* variant: b's parts come first *)
mergeContent_reversed(a, b) ==
    LET arrA == IF IsArr(a) THEN a.arr
                ELSE IF IsStr(a) /\ a.str # "" THEN <<[type |-> "text", text |-> a.str]>>
                ELSE <<>>
        arrB == IF IsArr(b) THEN b.arr
                ELSE IF IsStr(b) /\ b.str # "" THEN <<[type |-> "text", text |-> b.str]>>
                ELSE <<>>
    IN  Arr(arrB \o arrA)

(* mergeContent(a, b) *)
mergeContent(a, b) ==
    LET arrA == IF IsArr(a) THEN a.arr
                ELSE IF IsStr(a) /\ a.str # "" THEN <<[type |-> "text", text |-> a.str]>>
                ELSE <<>>
        arrB == IF IsArr(b) THEN b.arr
                ELSE IF IsStr(b) /\ b.str # "" THEN <<[type |-> "text", text |-> b.str]>>
                ELSE <<>>
    IN  Arr(arrA \o arrB)

(* `current = { ...msg }`: a new object with msg's properties; alias is    *)
(* the position of the list element current is the same object as, 0 for   *)
(* an object of its own                                                    *)
SpreadCopy(msg, i) == [alias |-> 0, obj |-> msg]

(* variant: every turn is kept as it is *)
MergeStep_neverMerges(st, i) ==
    [st EXCEPT !.merged = Append(@, st.list[i])]

(* one turn of the loop of mergeConsecutiveMessages on the i-th message;   *)
(* st holds the list as it is now, merged and current (Null before the     *)
(* first message)                                                          *)
MergeStep(st, i) ==
    LET msg == st.list[i]
    IN  IF st.current # Null /\ st.current.obj.role = msg.role
        THEN LET content == mergeContent(Get(st.current.obj, "content"), Get(msg, "content"))
                 written == [f \in DOMAIN st.current.obj \cup {"content"} |->
                               IF f = "content" THEN content ELSE st.current.obj[f]]
             IN  [st EXCEPT !.current = [alias |-> st.current.alias, obj |-> written],
                            !.list = IF st.current.alias = 0 THEN @
                                     ELSE [@ EXCEPT ![st.current.alias] = written]]
        ELSE [st EXCEPT !.merged = IF st.current # Null THEN Append(@, st.current.obj) ELSE @,
                        !.current = SpreadCopy(msg, i)]

RECURSIVE MergeLoop(_, _)
MergeLoop(st, i) ==
    IF i > Len(st.list) THEN st ELSE MergeLoop(MergeStep(st, i), i + 1)

(* mergeConsecutiveMessages(messages): what it returns, and the list it    *)
(* was given as the call leaves it                                         *)
mergeConsecutiveMessages(messages) ==
    LET st == MergeLoop([list |-> messages, merged |-> <<>>, current |-> Null], 1)
    IN  [merged |-> IF st.current # Null THEN Append(st.merged, st.current.obj)
                    ELSE st.merged,
         messages |-> st.list]

(* variant: a later system message replaces the earlier ones *)
AppendSystem_lastWins(systemContent, msg) ==
    Str(extractContent(Get(msg, "content")))

(* the system branch of the loop: systemContent is Null before the first   *)
(* system message                                                          *)
AppendSystem(systemContent, msg) ==
    IF systemContent = Null THEN Str(extractContent(Get(msg, "content")))
    ELSE Str(systemContent.str \o "\n\n" \o extractContent(Get(msg, "content")))

(* the other branches of the loop: what the message pushes *)
ConvertMessage(msg) ==
    IF msg.role = "user"
    THEN <<[role |-> "user"]
           @@ (IF Has(msg, "content")
               THEN "content" :> convertOpenAIContent(msg.content) ELSE <<>>)>>
    ELSE IF msg.role = "assistant"
    THEN <<[role |-> "assistant", content |-> convertAssistantMessage(msg)]>>
    ELSE IF msg.role = "tool"
    THEN <<[role |-> "user",
            content |-> Arr(<<[type |-> "tool_result",
                               content |-> extractContent(Get(msg, "content"))]
                              @@ (IF Has(msg, "tool_call_id")
                                  THEN "tool_use_id" :> msg.tool_call_id ELSE <<>>)>>)]>>
    ELSE IF msg.role = "function"
    THEN <<[role |-> "user",
            content |-> Arr(<<[type |-> "tool_result",
                               tool_use_id |-> IF Has(msg, "name") /\ msg.name # ""
                                               THEN msg.name ELSE "function",
                               content |-> extractContent(Get(msg, "content"))]>>)]>>
    ELSE <<>>

(* the loop of convertOpenAIToAnthropic over the first n messages *)
RECURSIVE ConvertLoop(_, _)
ConvertLoop(messages, n) ==
    IF n = 0 THEN [systemContent |-> Null, convertedMessages |-> <<>>]
    ELSE LET before == ConvertLoop(messages, n - 1)
             msg == messages[n]
         IN  IF msg.role = "system"
             THEN [before EXCEPT !.systemContent = AppendSystem(@, msg)]
             ELSE [before EXCEPT !.convertedMessages = @ \o ConvertMessage(msg)]

(* convertOpenAIToAnthropic(openaiRequest) *)
convertOpenAIToAnthropic(openaiRequest) ==
    LET messages == IF Has(openaiRequest, "messages") THEN openaiRequest.messages.arr
                    ELSE <<>>
        loop == ConvertLoop(messages, Len(messages))
        maxTokens == IF Has(openaiRequest, "max_tokens") /\ openaiRequest.max_tokens # 0
                     THEN openaiRequest.max_tokens
                     ELSE IF Has(openaiRequest, "max_completion_tokens")
                             /\ openaiRequest.max_completion_tokens # 0
                     THEN openaiRequest.max_completion_tokens
                     ELSE 4096
    IN  [model |-> mapModel(IF Has(openaiRequest, "model") THEN openaiRequest.model ELSE ""),
         messages |-> mergeConsecutiveMessages(loop.convertedMessages).merged,
         max_tokens |-> maxTokens,
         stream |-> Has(openaiRequest, "stream") /\ openaiRequest.stream]
        @@ (IF loop.systemContent # Null /\ loop.systemContent.str # ""
            THEN "system" :> loop.systemContent.str ELSE <<>>)
        @@ (IF Has(openaiRequest, "temperature")
            THEN "temperature" :> openaiRequest.temperature ELSE <<>>)
        @@ (IF Has(openaiRequest, "top_p") THEN "top_p" :> openaiRequest.top_p ELSE <<>>)
        @@ (IF Has(openaiRequest, "stop") /\ ContentGiven(openaiRequest.stop)
            THEN "stop_sequences" :> (IF IsArr(openaiRequest.stop) THEN openaiRequest.stop.arr
                                      ELSE <<openaiRequest.stop.str>>)
            ELSE <<>>)

(* Client requests *)

TextPart(text) == [type |-> "text", text |-> text]
PngUrl == [scheme |-> "data", mediaType |-> "image/png", encoding |-> "base64",
           payload |-> <<"i", "V", "B", "O", "R", "w", "0", "K">>]
(* the same image with its base64 text wrapped in two lines *)
WrappedPngUrl == [scheme |-> "data", mediaType |-> "image/png", encoding |-> "base64",
                  payload |-> <<"i", "V", "B", "O", "\n", "R", "w", "0", "K">>]
WebUrl == [scheme |-> "https", mediaType |-> "", encoding |-> "", payload |-> <<>>]
ImagePart(url) == [type |-> "image_url", image_url |-> [url |-> url]]

SystemMsg(content) == [role |-> "system", content |-> content]
UserMsg(content) == [role |-> "user", content |-> content]
AssistantMsg(content) == [role |-> "assistant", content |-> content]
ToolMsg(id, text) == [role |-> "tool", tool_call_id |-> id, content |-> Str(text)]
FunctionMsg(name, text) == [role |-> "function", name |-> name, content |-> Str(text)]
FunctionCall(id, name, arguments) ==
    [id |-> id, type |-> "function", function |-> [name |-> name, arguments |-> arguments]]
CallingMsg(calls) == [role |-> "assistant", content |-> Null, tool_calls |-> Arr(calls)]

(* {"a":1}, { }, a text cut short, a bare word, the empty text *)
ArgsObject == <<"{", "\"", "a", "\"", ":", "1", "}">>
ArgsSpaced == <<"{", " ", "}">>
ArgsCut == <<"{", "\"", "a", "\"", ":">>
ArgsWord == <<"a">>
ArgsEmpty == <<>>

SystemMsgs ==
    {SystemMsg(Str("Be brief")), SystemMsg(Str("")),
     SystemMsg(Arr(<<TextPart("Answer"), ImagePart(WebUrl), TextPart("in French")>>))}
UserMsgs ==
    {UserMsg(Str("Hi")), UserMsg(Str("")),
     UserMsg(Arr(<<TextPart("Look"), ImagePart(WebUrl), ImagePart(WrappedPngUrl)>>)),
     UserMsg(Arr(<<TextPart("See"), ImagePart(PngUrl)>>))}
TwoCalls ==
    CallingMsg(<<FunctionCall("call_1", "get_weather", ArgsObject),
                 FunctionCall("call_2", "get_time", ArgsCut)>>)
(* a tool call that does not say its type *)
UntypedCall ==
    CallingMsg(<<[id |-> "call_3", function |-> [name |-> "get_date", arguments |-> ArgsSpaced]]>>)
OddCalls ==
    [role |-> "assistant", content |-> Str("Let me check"),
     tool_calls |-> Arr(<<FunctionCall("call_4", "get_zone", ArgsEmpty),
                          FunctionCall("call_5", "get_city", ArgsWord)>>)]
LegacyCall ==
    [role |-> "assistant", content |-> Null,
     function_call |-> [name |-> "get_rate", arguments |-> ArgsObject]]
(* an assistant message as a client echoes it back: function_call is null *)
EchoedMsg == AssistantMsg(Str("Hello")) @@ [function_call |-> Null]
AssistantMsgs ==
    {EchoedMsg, TwoCalls, UntypedCall, OddCalls, LegacyCall}
ToolMsgs ==
    {ToolMsg("call_1", "Sunny"), ToolMsg("call_3", "Monday"),
     FunctionMsg("get_rate", "1.08")}
OtherMsgs == {[role |-> "developer", content |-> Str("Debug")]}

ClientMessages == SystemMsgs \cup UserMsgs \cup AssistantMsgs \cup ToolMsgs \cup OtherMsgs

Requests ==
    {[model |-> StreamModel, messages |-> Arr(messages)] :
        messages \in SeqsUpTo(ClientMessages, MaxMessages)}
    \cup {[model |-> name, messages |-> Arr(<<UserMsg(Str("Hi"))>>)] :
            name \in {"", "gemini-3-flash", "constructor", "__proto__"}}

InitReq ==
    /\ InitArgs
    /\ res \in {[op |-> "args", openaiRequest |-> r] : r \in Requests}

(* one call of convertOpenAIToAnthropic; convertedMessages is the list     *)
(* the loop has built, convertedAfter the same list once                   *)
(* mergeConsecutiveMessages has returned                                   *)
ConvertRequest ==
    /\ res.op = "args"
    /\ LET messages == res.openaiRequest.messages.arr
           loop == ConvertLoop(messages, Len(messages))
       IN  res' = [op |-> "convertOpenAIToAnthropic",
                   openaiRequest |-> res.openaiRequest,
                   convertedMessages |-> loop.convertedMessages,
                   convertedAfter |->
                       mergeConsecutiveMessages(loop.convertedMessages).messages,
                   ret |-> convertOpenAIToAnthropic(res.openaiRequest)]
    /\ ArgsFrame

NextReq == ConvertRequest

SpecReq == InitReq /\ [][NextReq]_vars

-----------------------------------------------------------------------------
(* The converted request *)

ClientMessagesOf(request) == request.messages.arr

(* the role a client message takes among the turns: tool and function      *)
(* messages are user turns, system messages and messages of other roles    *)
(* are no turns                                                            *)
RECURSIVE TurnRoles(_)
TurnRoles(messages) ==
    IF messages = <<>> THEN <<>>
    ELSE (CASE messages[1].role \in {"user", "tool", "function"} -> <<"user">>
            [] messages[1].role = "assistant" -> <<"assistant">>
            [] OTHER -> <<>>) \o TurnRoles(Tail(messages))

Alternates(roles) == \A i \in 1..(Len(roles) - 1) : roles[i] # roles[i + 1]
RunCount(roles) == Cardinality({i \in 1..Len(roles) : i = 1 \/ roles[i] # roles[i - 1]})

(* C24: the converted messages hold only user and assistant turns and no   *)
(* two neighbours have the same role; each run of client turns of one role *)
(* gives one turn, so N user turns in a row (system messages aside, tool   *)
(* and function messages counting as user turns) give exactly one, and N   *)
(* turns that alternate stay N.                                            *)
C24_TurnsAlternate ==
    res.op = "convertOpenAIToAnthropic" =>
        LET out == res.ret.messages
            roles == TurnRoles(ClientMessagesOf(res.openaiRequest))
        IN  /\ \A i \in 1..Len(out) : out[i].role \in {"user", "assistant"}
            /\ Alternates([i \in 1..Len(out) |-> out[i].role])
            /\ Len(out) = RunCount(roles)
            /\ (roles # <<>> /\ \A i \in 1..Len(roles) : roles[i] = "user") => Len(out) = 1
            /\ Alternates(roles) => Len(out) = Len(roles)

(* a user message, a tool result and a user message became one user turn *)
C24_Witness ==
    /\ res.op = "convertOpenAIToAnthropic"
    /\ ClientMessagesOf(res.openaiRequest)
         = <<UserMsg(Str("Hi")), ToolMsg("call_1", "Sunny"), UserMsg(Str("Hi"))>>
    /\ Len(res.ret.messages) = 1
    /\ res.ret.messages[1].role = "user"

(* a user, an assistant and a user message stayed three turns *)
C24_WitnessAlternating ==
    /\ res.op = "convertOpenAIToAnthropic"
    /\ TurnRoles(ClientMessagesOf(res.openaiRequest)) = <<"user", "assistant", "user">>
    /\ Len(res.ret.messages) = 3

(* the content parts of a turn, a non-empty string being one text part *)
PartsOf(turn) ==
    LET content == Get(turn, "content")
    IN  IF IsArr(content) THEN content.arr
        ELSE IF IsStr(content) /\ content.str # "" THEN <<TextPart(content.str)>>
        ELSE <<>>

RECURSIVE AllParts(_)
AllParts(turns) ==
    IF turns = <<>> THEN <<>> ELSE PartsOf(turns[1]) \o AllParts(Tail(turns))

(* the turns cut into runs of one role *)
RECURSIVE Runs(_)
Runs(turns) ==
    IF turns = <<>> THEN <<>>
    ELSE LET rest == Runs(Tail(turns))
         IN  IF rest # <<>> /\ rest[1][1].role = turns[1].role
             THEN <<(<<turns[1]>> \o rest[1])>> \o Tail(rest)
             ELSE <<(<<turns[1]>>)>> \o rest

(* C25: each run of same-role turns becomes one turn whose content is the  *)
(* content parts of the run's turns in order (a turn that is a run of its  *)
(* own is kept as it is); over the conversation the sequence of content    *)
(* parts is the same before and after merging; the list handed to          *)
(* mergeConsecutiveMessages and its message objects are left as they were. *)
C25_MergeKeepsParts ==
    res.op = "convertOpenAIToAnthropic" =>
        LET before == res.convertedMessages
            after == res.ret.messages
            runs == Runs(before)
        IN  /\ Len(after) = Len(runs)
            /\ \A k \in 1..Len(runs) :
                 /\ after[k].role = runs[k][1].role
                 /\ Len(runs[k]) = 1 => after[k] = runs[k][1]
                 /\ Len(runs[k]) > 1 => after[k].content = Arr(AllParts(runs[k]))
            /\ AllParts(after) = AllParts(before)
            /\ res.convertedAfter = before

(* a string, a tool result and an array of two parts were merged into four *)
(* parts                                                                   *)
C25_Witness ==
    /\ res.op = "convertOpenAIToAnthropic"
    /\ ClientMessagesOf(res.openaiRequest)
         = <<UserMsg(Str("Hi")), ToolMsg("call_1", "Sunny"),
             UserMsg(Arr(<<TextPart("See"), ImagePart(PngUrl)>>))>>
    /\ Len(res.ret.messages) = 1
    /\ Len(res.ret.messages[1].content.arr) = 4
    /\ res.ret.messages[1].content.arr[1] = TextPart("Hi")
    /\ res.ret.messages[1].content.arr[4].type = "image"

(* the text of a system message *)
SystemText(msg) ==
    CASE msg = SystemMsg(Str("Be brief")) -> "Be brief"
      [] msg = SystemMsg(Str("")) -> ""
      [] OTHER -> "Answer\nin French"

RECURSIVE SystemTexts(_)
SystemTexts(messages) ==
    IF messages = <<>> THEN <<>>
    ELSE (IF messages[1].role = "system" THEN <<SystemText(messages[1])>> ELSE <<>>)
         \o SystemTexts(Tail(messages))

RECURSIVE BlankLineJoined(_)
BlankLineJoined(texts) ==
    IF texts = <<>> THEN ""
    ELSE IF Len(texts) = 1 THEN texts[1]
    ELSE BlankLineJoined(SubSeq(texts, 1, Len(texts) - 1)) \o "\n\n" \o texts[Len(texts)]

SystemExample ==
    <<SystemMsg(Str("Be brief")), UserMsg(Str("Hi")),
      SystemMsg(Arr(<<TextPart("Answer"), ImagePart(WebUrl), TextPart("in French")>>))>>

(* C26: the system field is the texts of the system messages, in their     *)
(* order and wherever they stand, joined with "\n\n"; it is absent when    *)
(* that text is empty; no output turn has the role system.                 *)
C26_SystemJoined ==
    res.op = "convertOpenAIToAnthropic" =>
        LET expected == BlankLineJoined(SystemTexts(ClientMessagesOf(res.openaiRequest)))
        IN  /\ expected # "" => (Has(res.ret, "system") /\ res.ret.system = expected)
            /\ expected = "" => ~Has(res.ret, "system")
            /\ \A i \in 1..Len(res.ret.messages) : res.ret.messages[i].role # "system"
            /\ ClientMessagesOf(res.openaiRequest) = SystemExample =>
                 res.ret.system = "Be brief\n\nAnswer\nin French"

(* two system messages around a user message were joined *)
C26_Witness ==
    /\ res.op = "convertOpenAIToAnthropic"
    /\ ClientMessagesOf(res.openaiRequest) = SystemExample
    /\ Has(res.ret, "system")
    /\ Len(res.ret.messages) = 1

ToolUseParts(content) ==
    IF IsArr(content) THEN SelectSeq(content.arr, LAMBDA p : p.type = "tool_use") ELSE <<>>
ToolResultParts(content) ==
    IF IsArr(content) THEN SelectSeq(content.arr, LAMBDA p : p.type = "tool_result") ELSE <<>>

(* the argument texts that are no JSON *)
NotJson == {ArgsCut, ArgsWord, ArgsEmpty}
RawInput(arguments) == PObj(<<[k |-> <<"r", "a", "w">>, v |-> PStr(arguments)]>>)

(* C27: an assistant message with m tool calls converts to content with    *)
(* exactly m tool_use parts, in the calls' order, each with the call's id  *)
(* and function name, and with input {raw: arguments} when the arguments   *)
(* are not JSON.                                                           *)
C27_ToolCallsNeverDropped ==
    res.op = "convertOpenAIToAnthropic" =>
        \A i \in 1..Len(ClientMessagesOf(res.openaiRequest)) :
            LET msg == ClientMessagesOf(res.openaiRequest)[i]
            IN  (msg.role = "assistant" /\ Has(msg, "tool_calls")) =>
                    LET calls == msg.tool_calls.arr
                        parts == ToolUseParts(convertAssistantMessage(msg))
                    IN  /\ Len(parts) = Len(calls)
                        /\ \A k \in 1..Len(calls) :
                             /\ parts[k].id = calls[k].id
                             /\ parts[k].name = calls[k].function.name
                             /\ calls[k].function.arguments \in NotJson =>
                                  parts[k].input = RawInput(calls[k].function.arguments)

(* every tool message answers a tool call, and every function message a    *)
(* function call, of an earlier assistant message                          *)
Answered(messages) ==
    \A i \in 1..Len(messages) :
        /\ messages[i].role = "tool" =>
             \E j \in 1..(i - 1) :
                 /\ messages[j].role = "assistant" /\ Has(messages[j], "tool_calls")
                 /\ \E k \in 1..Len(messages[j].tool_calls.arr) :
                      messages[j].tool_calls.arr[k].id = messages[i].tool_call_id
        /\ messages[i].role = "function" =>
             \E j \in 1..(i - 1) :
                 /\ messages[j].role = "assistant" /\ Has(messages[j], "function_call")
                 /\ messages[j].function_call.name = messages[i].name

(* the tool_result parts the tool and function messages should give *)
RECURSIVE ExpectedResultIds(_)
ExpectedResultIds(messages) ==
    IF messages = <<>> THEN <<>>
    ELSE (CASE messages[1].role = "tool" -> <<messages[1].tool_call_id>>
            [] messages[1].role = "function" -> <<messages[1].name>>
            [] OTHER -> <<>>) \o ExpectedResultIds(Tail(messages))

(* C28: the tool and function messages become tool_result parts in user    *)
(* turns, in order, with tool_use_id the message's tool_call_id (the       *)
(* function name for a function message); when every tool message answers  *)
(* a call of an earlier assistant message, every tool_result part refers   *)
(* to the id of a tool_use part of an earlier assistant turn.              *)
C28_ToolResultsReferToToolUse ==
    res.op = "convertOpenAIToAnthropic" =>
        LET messages == ClientMessagesOf(res.openaiRequest)
            out == res.ret.messages
            results == [i \in 1..Len(out) |-> ToolResultParts(Get(out[i], "content"))]
            ids == AllParts([i \in 1..Len(out) |->
                      [content |-> Arr([k \in 1..Len(results[i]) |->
                                          results[i][k].tool_use_id])]])
        IN  /\ ids = ExpectedResultIds(messages)
            /\ \A i \in 1..Len(out) : results[i] # <<>> => out[i].role = "user"
            /\ Answered(messages) =>
                 \A i \in 1..Len(out) : \A k \in 1..Len(results[i]) :
                     \E j \in 1..(i - 1) :
                         /\ out[j].role = "assistant"
                         /\ \E u \in 1..Len(ToolUseParts(out[j].content)) :
                              ToolUseParts(out[j].content)[u].id = results[i][k].tool_use_id

-----------------------------------------------------------------------------
(* Usage accounting *)

(* a counter of the backend response as the interface documents it: its    *)
(* value, 0 when the usage object or the counter is absent                 *)
BackendCounter(response, field) ==
    IF "usage" \in DOMAIN response /\ field \in DOMAIN response.usage
    THEN response.usage[field] ELSE 0

(* C31: in every converted response prompt_tokens is input_tokens plus     *)
(* cache_read_input_tokens, completion_tokens is output_tokens and         *)
(* total_tokens is their sum, an absent counter (or an absent usage        *)
(* object) counting as 0; the usage object has exactly these three fields. *)
C31_UsageAccounting ==
    res.op = "convertAnthropicToOpenAI" =>
        LET usage == res.ret.usage
            r == res.anthropicResponse
        IN  /\ DOMAIN usage = {"prompt_tokens", "completion_tokens", "total_tokens"}
            /\ usage.prompt_tokens = BackendCounter(r, "input_tokens")
                                     + BackendCounter(r, "cache_read_input_tokens")
            /\ usage.completion_tokens = BackendCounter(r, "output_tokens")
            /\ usage.total_tokens = usage.prompt_tokens + usage.completion_tokens

(* a response whose usage has input and cache-read counters but no output  *)
(* counter has been converted: 3 + 5 prompt tokens, 0 completion tokens    *)
C31_Witness ==
    /\ res.op = "convertAnthropicToOpenAI"
    /\ "usage" \in DOMAIN res.anthropicResponse
    /\ res.anthropicResponse.usage = [input_tokens |-> 3, cache_read_input_tokens |-> 5]
    /\ res.ret.usage = [prompt_tokens |-> 8, completion_tokens |-> 0, total_tokens |-> 8]

(* a response without usage object has been converted: all three are 0 *)
C31_WitnessNoUsage ==
    /\ res.op = "convertAnthropicToOpenAI"
    /\ ~("usage" \in DOMAIN res.anthropicResponse)
    /\ res.ret.usage = [prompt_tokens |-> 0, completion_tokens |-> 0, total_tokens |-> 0]

-----------------------------------------------------------------------------
(* Account pool and selection strategy *)

MaxSelections == 5

(* DEFAULT_CONFIG: the cooldown and the account selection settings *)
DEFAULT_CONFIG ==
    [defaultCooldownMs |-> 10000,
     accountSelection |->
        [strategy |-> "hybrid",
         healthScore |-> [initial |-> 70, successReward |-> 1, rateLimitPenalty |-> -10,
                          failurePenalty |-> -20, minUsable |-> 50, maxScore |-> 100]]]

(* the names the command line and the configuration document *)
DocumentedStrategies == {"sticky", "round-robin", "hybrid"}

(* name.toLowerCase() on the names in use *)
toLowerCase(name) ==
    CASE name = "Round-Robin" -> "round-robin"
      [] name = "RoundRobin" -> "roundrobin"
      [] OTHER -> name

isValidStrategy(name) ==
    IF name = "" THEN FALSE
    ELSE toLowerCase(name) = "round-robin" \/ toLowerCase(name) = "roundrobin"

(* createStrategy(strategyName, config): the name is ignored, the object is *)
(* always a RoundRobinStrategy                                              *)
createStrategy(name) == "RoundRobinStrategy"

(* the pool's identities in their stable order *)
PoolOrder == <<"a@example.com", "b@example.com", "c@example.com">>
Emails == {PoolOrder[i] : i \in 1..Len(PoolOrder)}

NewAccount(enabled, isInvalid) ==
    [enabled |-> enabled, isInvalid |-> isInvalid, cooldownUntil |-> NULL,
     healthScore |-> DEFAULT_CONFIG.accountSelection.healthScore.initial,
     lastUsedAt |-> NULL]

isEligible_coolingAllowed(account, t) == account.enabled /\ ~account.isInvalid
(* selectAccount excludes enabled=false, isInvalid=true and cooldownUntil > now *)
isEligible(account, t) ==
    /\ account.enabled
    /\ ~account.isInvalid
    /\ ~(account.cooldownUntil # NULL /\ account.cooldownUntil > t)

(* the filtered, stably ordered candidate list *)
Candidates(accs, t) ==
    SelectSeq(PoolOrder, LAMBDA e : e \in DOMAIN accs /\ isEligible(accs[e], t))

selectAccount_cursorKept(accs, cur, t) ==
    LET list == Candidates(accs, t)
    IN  IF list = <<>> THEN [error |-> "NoAccountsAvailable", cursor |-> cur]
        ELSE [account |-> list[(cur % Len(list)) + 1], cursor |-> cur % Len(list)]
(* round-robin: the cursor's entry of the candidate list is returned and    *)
(* the cursor advances modulo the candidate count; no candidate fails with  *)
(* NoAccountsAvailable                                                      *)
selectAccount(accs, cur, t) ==
    LET list == Candidates(accs, t)
    IN  IF list = <<>> THEN [error |-> "NoAccountsAvailable", cursor |-> cur]
        ELSE [account |-> list[(cur % Len(list)) + 1],
              cursor |-> ((cur % Len(list)) + 1) % Len(list)]

Clamp(score) ==
    IF score < 0 THEN 0
    ELSE IF score > DEFAULT_CONFIG.accountSelection.healthScore.maxScore
         THEN DEFAULT_CONFIG.accountSelection.healthScore.maxScore
         ELSE score

(* recordOutcome(identity, outcome): the score moves by the outcome's delta, *)
(* clamped; a rate limit also sets cooldownUntil = now + cooldown            *)
recordOutcome(account, outcome, t) ==
    LET h == DEFAULT_CONFIG.accountSelection.healthScore
    IN  CASE outcome = "success" ->
               [account EXCEPT !.healthScore = Clamp(@ + h.successReward)]
          [] outcome = "rateLimited" ->
               [account EXCEPT !.healthScore = Clamp(@ + h.rateLimitPenalty),
                               !.cooldownUntil = t + DEFAULT_CONFIG.defaultCooldownMs]
          [] outcome = "failure" ->
               [account EXCEPT !.healthScore = Clamp(@ + h.failurePenalty)]

Outcomes == {"success", "rateLimited", "failure"}
PoolClockPoints == {0, 10000}

(* the pools loaded at start: all three usable, one disabled, one invalid,  *)
(* a single usable identity, none usable                                    *)
Pools ==
    {[e \in Emails |-> NewAccount(TRUE, FALSE)],
     [e \in Emails |-> NewAccount(e # "b@example.com", FALSE)],
     [e \in Emails |-> NewAccount(TRUE, e = "c@example.com")],
     [e \in Emails |-> NewAccount(e # "b@example.com", e = "c@example.com")],
     [e \in Emails |-> NewAccount(FALSE, FALSE)]}

InitPool ==
    /\ InitBase
    /\ recorded = <<>>
    /\ InitStream
    /\ InitPairIdle /\ InitDbIdle
    /\ accounts \in Pools
    /\ strategyName \in DocumentedStrategies
    /\ cursor = 0
    /\ selections = <<>>
    /\ stableSince = 0

(* the candidate list differs after the step: earlier selections no longer *)
(* count as made over the same list                                        *)
StableAfter ==
    stableSince' = IF Candidates(accounts', now') = Candidates(accounts, now)
                   THEN stableSince ELSE Len(selections')

(* one request asks the pool for an identity *)
SelectAccount ==
    /\ Len(selections) < MaxSelections
    /\ createStrategy(strategyName) = "RoundRobinStrategy"
    /\ LET r == selectAccount(accounts, cursor, now)
       IN  /\ cursor' = r.cursor
           /\ IF "error" \in DOMAIN r
              THEN /\ selections' = Append(selections,
                                       [at |-> now, candidates |-> Candidates(accounts, now),
                                        picked |-> r.error, outcome |-> "none"])
                   /\ accounts' = accounts
              ELSE /\ selections' = Append(selections,
                                       [at |-> now, candidates |-> Candidates(accounts, now),
                                        picked |-> r.account, outcome |-> "pending"])
                   /\ accounts' = [accounts EXCEPT ![r.account].lastUsedAt = now]
    /\ UNCHANGED <<now, rateLimitStore, recorded, res, strategyName>>
    /\ KeyFrame /\ StreamFrame /\ ReqFrame /\ PairFrame /\ DbFrame
    /\ StableAfter

(* the request that was given the i-th selection reports how it ended *)
RecordOutcome(i, outcome) ==
    /\ i \in 1..Len(selections)
    /\ selections[i].outcome = "pending"
    /\ selections' = [selections EXCEPT ![i].outcome = outcome]
    /\ accounts' = [accounts EXCEPT
                      ![selections[i].picked] = recordOutcome(@, outcome, now)]
    /\ UNCHANGED <<now, rateLimitStore, recorded, res, cursor, strategyName>>
    /\ KeyFrame /\ StreamFrame /\ ReqFrame /\ PairFrame /\ DbFrame
    /\ StableAfter

PoolTick(t) ==
    /\ t > now
    /\ now' = t
    /\ UNCHANGED <<rateLimitStore, recorded, res, accounts, cursor, strategyName, selections>>
    /\ KeyFrame /\ StreamFrame /\ ReqFrame /\ PairFrame /\ DbFrame
    /\ StableAfter

NextPool ==
    \/ SelectAccount
    \/ \E i \in 1..MaxSelections, outcome \in Outcomes : RecordOutcome(i, outcome)
    \/ \E t \in PoolClockPoints : PoolTick(t)

SpecPool == InitPool /\ [][NextPool]_vars

-----------------------------------------------------------------------------
(* Selection over the pool *)

(* the selections made since the candidate list last changed *)
StableSelections == SubSeq(selections, stableSince + 1, Len(selections))

(* the entry after e in the list, the first one after the last *)
CyclicNext(list, e) ==
    LET i == CHOOSE k \in 1..Len(list) : list[k] = e
    IN  list[(i % Len(list)) + 1]

(* C32: while the candidate list stays the same n identities in the same   *)
(* order, round-robin returns them cyclically in that order: each          *)
(* selection returns the identity after the one returned before it, any n  *)
(* consecutive selections return each identity exactly once, and over      *)
(* [A, B, C] from the start the selections are A, B, C, A, B.              *)
C32_RoundRobinCycles ==
    LET list == Candidates(accounts, now)
        n == Len(list)
        made == StableSelections
    IN  n > 0 =>
          /\ \A i \in 1..Len(made) : made[i].candidates = list
          /\ \A i \in 1..(Len(made) - 1) :
               made[i + 1].picked = CyclicNext(list, made[i].picked)
          /\ \A i \in 1..(Len(made) - n + 1) :
               \A e \in Emails :
                 (\E k \in 1..n : list[k] = e) =>
                   Cardinality({j \in i..(i + n - 1) : made[j].picked = e}) = 1
          /\ (list = PoolOrder /\ stableSince = 0) =>
               \A i \in 1..Len(made) : made[i].picked = PoolOrder[((i - 1) % 3) + 1]

(* five selections over [A, B, C], all eligible throughout: A, B, C, A, B *)
C32_Witness ==
    /\ stableSince = 0
    /\ Candidates(accounts, now) = PoolOrder
    /\ Len(selections) = 5
    /\ [i \in 1..5 |-> selections[i].picked]
         = <<"a@example.com", "b@example.com", "c@example.com",
             "a@example.com", "b@example.com">>

(* an identity is cooling down: its cooldownUntil lies ahead *)
Cooling(e) == accounts[e].cooldownUntil # NULL /\ now < accounts[e].cooldownUntil
Selectable(e) == accounts[e].enabled /\ ~accounts[e].isInvalid /\ ~Cooling(e)

(* C33: a rateLimited outcome sets the identity's cooldownUntil to now plus *)
(* the cooldown; a selection never returns an identity that is cooling      *)
(* down, disabled or invalid, whatever its score, returns a selectable one  *)
(* when there is one (an identity whose cooldown has elapsed included), and  *)
(* fails with NoAccountsAvailable exactly when there is none.               *)
C33_CooldownExcludes ==
    [][/\ \A i \in 1..Len(selections) :
            (selections[i].outcome = "pending" /\ selections'[i].outcome = "rateLimited") =>
                accounts'[selections[i].picked].cooldownUntil
                    = now + DEFAULT_CONFIG.defaultCooldownMs
       /\ Len(selections') = Len(selections) + 1 =>
            LET picked == selections'[Len(selections')].picked
            IN  IF \E e \in Emails : Selectable(e)
                THEN picked \in Emails /\ Selectable(picked)
                ELSE picked = "NoAccountsAvailable"]_vars

(* A was rate limited at 0 and, with the best score of the pool, passed    *)
(* over by a selection made while it cooled down; at 10000 its cooldown    *)
(* has elapsed and it is selected again                                    *)
C33_Witness ==
    /\ Len(selections) = 4
    /\ selections[1].picked = "a@example.com" /\ selections[1].outcome = "rateLimited"
    /\ selections[2].picked = "b@example.com" /\ selections[2].outcome = "failure"
    /\ selections[2].at = 0
    /\ selections[3].picked = "b@example.com" /\ selections[3].at = 0
    /\ ~(\E k \in 1..Len(selections[3].candidates) :
            selections[3].candidates[k] = "a@example.com")
    /\ accounts["a@example.com"].healthScore > accounts["b@example.com"].healthScore
    /\ accounts["a@example.com"].cooldownUntil = 10000
    /\ selections[4].picked = "a@example.com" /\ selections[4].at = 10000

(* no usable identity: the selection failed with NoAccountsAvailable *)
C33_WitnessNone ==
    /\ Len(selections) >= 1
    /\ selections[Len(selections)].picked = "NoAccountsAvailable"

(* C34: the configured strategy name determines the selection: under       *)
(* `sticky` consecutive selections stay on the same account while it is    *)
(* available, under `round-robin` every selection moves to another account *)
(* when there is one.                                                      *)
C34_NameDeterminesBehaviour ==
    LET made == StableSelections
        n == Len(Candidates(accounts, now))
    IN  n > 0 =>
          \A i \in 1..(Len(made) - 1) :
            /\ strategyName = "sticky" => made[i + 1].picked = made[i].picked
            /\ (strategyName = "round-robin" /\ n > 1) =>
                  made[i + 1].picked # made[i].picked

(* the round-robin half of C34 on its own *)
C34_RoundRobinRotates ==
    LET made == StableSelections
        n == Len(Candidates(accounts, now))
    IN  (n > 1 /\ strategyName = "round-robin") =>
          \A i \in 1..(Len(made) - 1) : made[i + 1].picked # made[i].picked

-----------------------------------------------------------------------------
(* Two streams transcoded concurrently *)

MaxPairLen == 3

StreamIds == {1, 2}

(* the backend events of the two streams *)
PairEvents ==
    {MessageStart, TextDelta(0, "Hi"), ToolBlockStart(1),
     ToolStart(2, "toolu_02", "get_time"), JsonDelta(1, "{}"), MessageDelta("end_turn")}

(* each transformAnthropicStreamToOpenAI call creates an adapter of its own, *)
(* which draws its own completion id                                         *)
NewStream(id) ==
    [adapter |-> createOpenAIStreamAdapter(id), feed |-> <<>>, frames |-> <<>>,
     open |-> TRUE]

InitPair ==
    /\ InitBase
    /\ recorded = <<>>
    /\ InitStream
    /\ InitPoolIdle /\ InitDbIdle
    /\ streams = [s \in StreamIds |->
                    NewStream(IF s = 1 THEN CompletionId ELSE "chatcmpl-a07e")]

AdapterOf_sharedCounter(ss, s) ==
    [ss[s].adapter EXCEPT !.currentToolIndex = ss[1].adapter.currentToolIndex]
(* sentRole, currentToolIndex and toolCallMap are variables of the closure *)
(* that createOpenAIStreamAdapter returned for this stream                 *)
AdapterOf(ss, s) == ss[s].adapter

(* one turn of the loop of stream s: the scheduler resumes whichever *)
(* generator has an event waiting                                    *)
PairEvent(s, event) ==
    /\ streams[s].open
    /\ Len(streams[s].feed) < MaxPairLen
    /\ LET r == transform(AdapterOf(streams, s), event, now)
       IN  streams' = [streams EXCEPT
                         ![s] = [adapter |-> r.adapter,
                                 feed |-> Append(streams[s].feed, event),
                                 frames |-> IF r.out # Null
                                            THEN Append(streams[s].frames, r.out)
                                            ELSE streams[s].frames,
                                 open |-> TRUE]]
    /\ UNCHANGED <<now, rateLimitStore, recorded, res>>
    /\ KeyFrame /\ StreamFrame /\ ReqFrame /\ PoolFrame /\ DbFrame

(* the consumer of stream s stops iterating: the generator and its adapter *)
(* are dropped                                                             *)
PairAbandon(s) ==
    /\ streams[s].open
    /\ streams' = [streams EXCEPT ![s].open = FALSE]
    /\ UNCHANGED <<now, rateLimitStore, recorded, res>>
    /\ KeyFrame /\ StreamFrame /\ ReqFrame /\ PoolFrame /\ DbFrame

NextPair ==
    \/ \E s \in StreamIds, event \in PairEvents : PairEvent(s, event)
    \/ \E s \in StreamIds : PairAbandon(s)

SpecPair == InitPair /\ [][NextPair]_vars

(* the adapter state and the frames of a stream that is fed the events on  *)
(* its own, from a fresh adapter with the given completion id              *)
RECURSIVE Alone(_, _, _)
Alone(id, events, t) ==
    IF events = <<>>
    THEN [adapter |-> createOpenAIStreamAdapter(id), frames |-> <<>>]
    ELSE LET before == Alone(id, SubSeq(events, 1, Len(events) - 1), t)
             r == transform(before.adapter, events[Len(events)], t)
         IN  [adapter |-> r.adapter,
              frames |-> IF r.out # Null THEN Append(before.frames, r.out)
                         ELSE before.frames]

(* C35: however the events of two concurrent streams interleave, each      *)
(* stream has yielded exactly the frames it yields when transcoded alone,  *)
(* under its own completion id, and its role flag, tool counter and block  *)
(* map are those of the stream alone; this also holds of a stream whose    *)
(* companion has been abandoned.                                           *)
C35_StreamsIndependent ==
    \A s \in StreamIds :
        LET alone == Alone(streams[s].adapter.completionId, streams[s].feed, now)
        IN  /\ streams[s].frames = alone.frames
            /\ streams[s].adapter = alone.adapter
            /\ \A k \in 1..Len(streams[s].frames) :
                 IsChunkFrame(streams[s].frames[k]) =>
                    streams[s].frames[k].json.id = streams[s].adapter.completionId

(* stream 1 opened two tool calls and was abandoned; stream 2, fed in     *)
(* between, sent its own role frame and opened its own first tool call  *)
(* with index 0                                                         *)
C35_Witness ==
    /\ ~streams[1].open
    /\ streams[1].feed = <<ToolBlockStart(1), ToolStart(2, "toolu_02", "get_time"),
                           JsonDelta(1, "{}")>>
    /\ streams[1].adapter.currentToolIndex = 1
    /\ streams[2].open
    /\ streams[2].feed = <<MessageStart, ToolBlockStart(1), JsonDelta(1, "{}")>>
    /\ streams[2].adapter.currentToolIndex = 0
    /\ streams[2].adapter.sentRole
    /\ streams[1].adapter.completionId # streams[2].adapter.completionId
    /\ Len(streams[2].frames) = 3

-----------------------------------------------------------------------------
(* The rate-limit store *)

NonDecreasing(seq) == \A i \in 1..(Len(seq) - 1) : seq[i] <= seq[i + 1]

(* C36: in every reachable state of the store, for every key, each         *)
(* timestamp of the minute sequence is in the hour sequence at least as    *)
(* often, the minute count is at most the hour count, and both sequences   *)
(* are non-decreasing.                                                     *)
C36_MinuteWithinHour ==
    \A k \in DOMAIN rateLimitStore :
        LET data == rateLimitStore[k]
        IN  /\ \A i \in 1..Len(data.rpm) :
                 Occurrences(data.rpm, data.rpm[i]) <= Occurrences(data.rph, data.rpm[i])
            /\ Len(data.rpm) <= Len(data.rph)
            /\ NonDecreasing(data.rpm)
            /\ NonDecreasing(data.rph)

(* requests recorded at 0 and at 59500, windows pruned at 60000: the first *)
(* is left in the hour window only                                         *)
C36_Witness ==
    /\ now = 60000
    /\ "id1" \in DOMAIN rateLimitStore
    /\ rateLimitStore["id1"] = [rpm |-> <<59500>>, rph |-> <<0, 59500>>]

(* the store had no window ever been pruned: per key, every timestamp *)
(* recorded since the key's last reset, in both windows               *)
Unpruned == [k \in {j \in RLKeyIds : recorded[j] # <<>>} |->
               [rpm |-> recorded[k], rph |-> recorded[k]]]

(* C38: a cleanup never changes what a later checkRateLimit or             *)
(* getRateLimitStatus returns: in every reachable state, and in the store  *)
(* a cleanup now would leave, the results are those of the same requests   *)
(* with nothing ever pruned; the cleanup removes exactly the timestamps    *)
(* outside their window and deletes a key's entry only when both pruned    *)
(* sequences are empty.                                                    *)
C38_CleanupInvisible ==
    LET cleaned == cleanupExpiredEntriesStore(rateLimitStore, now)
    IN  /\ \A e \in RLEntries :
             /\ checkRateLimitResult(rateLimitStore, e, now)
                  = checkRateLimitResult(Unpruned, e, now)
             /\ checkRateLimitResult(cleaned, e, now)
                  = checkRateLimitResult(Unpruned, e, now)
             /\ getRateLimitStatusResult(rateLimitStore, e, now)
                  = getRateLimitStatusResult(Unpruned, e, now)
             /\ getRateLimitStatusResult(cleaned, e, now)
                  = getRateLimitStatusResult(Unpruned, e, now)
        /\ \A k \in DOMAIN rateLimitStore :
             LET inMinute == SelectSeq(rateLimitStore[k].rpm, LAMBDA ts : ts > now - MinuteMs)
                 inHour == SelectSeq(rateLimitStore[k].rph, LAMBDA ts : ts > now - HourMs)
             IN  IF inMinute = <<>> /\ inHour = <<>>
                 THEN k \notin DOMAIN cleaned
                 ELSE /\ k \in DOMAIN cleaned
                      /\ cleaned[k] = [rpm |-> inMinute, rph |-> inHour]
        /\ DOMAIN cleaned \subseteq DOMAIN rateLimitStore

(* a cleanup has deleted the entry of id1, whose only request is an hour    *)
(* old, and pruned the minute window of id2, whose hour window still counts *)
C38_Witness ==
    /\ res.op = "cleanupExpiredEntries"
    /\ now = 3600000
    /\ recorded["id1"] = <<0>>
    /\ "id1" \notin DOMAIN rateLimitStore
    /\ recorded["id2"] = <<1000, 3599500>>
    /\ "id2" \in DOMAIN rateLimitStore
    /\ rateLimitStore["id2"] = [rpm |-> <<3599500>>, rph |-> <<1000, 3599500>>]

(* what the store holds for a key *)
StoredFor(store, k) ==
    IF k \in DOMAIN store THEN [present |-> TRUE, data |-> store[k]]
    ELSE [present |-> FALSE]

(* the step is checkRateLimit, getRateLimitStatus, recordRequest or *)
(* resetRateLimit on key a                                          *)
StepOn(a) ==
    \/ res'.op \in {"checkRateLimit", "getRateLimitStatus"} /\ res'.entry.id = a
    \/ res'.op = "recordRequest" /\ res'.id = a
    \/ res'.op = "resetRateLimit" /\ res'.id = a

(* a limit below 0: truthy, and no count is below it *)
NegativeLimit(e) ==
    \/ e.rate_limit_rpm # NULL /\ e.rate_limit_rpm < 0
    \/ e.rate_limit_rph # NULL /\ e.rate_limit_rph < 0

(* C39: an operation on key A changes neither what the store holds for any *)
(* other key B nor what a check or status call on B returns (a step that   *)
(* leaves store and clock as they were passes the same arguments to the    *)
(* call on B); after resetRateLimit(A) the store holds nothing for A and B *)
(* is as before, and the next check on A sees counts 0 (and is allowed     *)
(* exactly when no limit of A is negative).                                *)
C39_KeysIsolated ==
    [][\A a \in RLKeyIds :
         /\ StepOn(a) =>
              \A b \in RLKeyIds \ {a} :
                /\ StoredFor(rateLimitStore', b) = StoredFor(rateLimitStore, b)
                /\ \/ rateLimitStore' = rateLimitStore /\ now' = now
                   \/ \A e \in RLEntries : e.id = b =>
                        /\ checkRateLimitResult(rateLimitStore', e, now')
                             = checkRateLimitResult(rateLimitStore, e, now)
                        /\ getRateLimitStatusResult(rateLimitStore', e, now')
                             = getRateLimitStatusResult(rateLimitStore, e, now)
         /\ (res'.op = "resetRateLimit" /\ res'.id = a) =>
              /\ a \notin DOMAIN rateLimitStore'
              /\ \A e \in RLEntries : e.id = a =>
                   LET ret == checkRateLimitResult(rateLimitStore', e, now')
                   IN  /\ ret.current = [rpm |-> 0, rph |-> 0]
                       /\ ret.allowed <=> ~NegativeLimit(e)]_vars

(* id1 has just been reset while id2 holds the request it recorded: id2's *)
(* windows are as they were and the store holds nothing for id1           *)
C39_Witness ==
    /\ res = [op |-> "resetRateLimit", id |-> "id1"]
    /\ "id1" \notin DOMAIN rateLimitStore
    /\ recorded["id2"] = <<0>>
    /\ "id2" \in DOMAIN rateLimitStore
    /\ rateLimitStore["id2"] = [rpm |-> <<0>>, rph |-> <<0>>]
    /\ now = 1000

-----------------------------------------------------------------------------
(* Events that yield nothing *)

HandledTypes ==
    {"message_start", "content_block_start", "content_block_delta",
     "message_delta", "message_stop", "error"}

(* the k-th event fed is one of: no type, ping, content_block_stop, an     *)
(* unrecognized type, a text content_block_start, a thinking delta, or     *)
(* tool arguments for a backend block that opened no tool call before      *)
Silent(k) ==
    LET event == feed[k]
    IN  \/ ~Has(event, "type")
        \/ event.type \in {"ping", "content_block_stop"}
        \/ event.type \notin HandledTypes
        \/ /\ event.type = "content_block_start"
           /\ Has(event, "content_block") /\ event.content_block.type = "text"
        \/ /\ event.type = "content_block_delta"
           /\ Has(event, "delta") /\ event.delta.type = "thinking_delta"
        \/ /\ IsJsonDelta(event)
           /\ ~(\E j \in 1..(k - 1) : IsToolStart(feed[j]) /\ feed[j].index = event.index)

RECURSIVE Audible(_)
(* the first k events fed, without the silent ones *)
Audible(k) ==
    IF k = 0 THEN <<>>
    ELSE IF Silent(k) THEN Audible(k - 1) ELSE Append(Audible(k - 1), feed[k])

(* C37: a ping, an event of an unrecognized type or without type, a        *)
(* content_block_stop, a text content_block_start, a thinking delta and    *)
(* tool arguments for an unmapped backend block yield no frame and leave   *)
(* the stream state as it was, and nothing of them is yielded later: after *)
(* every event fed, the frames yielded and the adapter's state are those   *)
(* of the same feed with these events taken out.                           *)
C37_SilentEvents ==
    LET without == Alone(adapter.completionId, Audible(Len(feed)), now)
    IN  /\ frames = without.frames
        /\ adapter = without.adapter

(* arguments for backend block 2 were fed before block 2 opened a tool     *)
(* call, then the tool call was opened and closed: the only frame is the   *)
(* opening of the tool call, with empty arguments                          *)
C37_Witness ==
    /\ feed = <<JsonDelta(2, "{\"tz\":"), ToolStart(2, "toolu_02", "get_time"), BlockStop(0)>>
    /\ Len(frames) = 1
    /\ frames[1] = ToolOpenFrame(0, "toolu_02", "get_time")
    /\ adapter.currentToolIndex = 0

-----------------------------------------------------------------------------
(* Database module *)

MaxOpened == 3

(* const migrations = [{version: 1, name: 'initial_schema', up: ...}] *)
migrations == <<[version |-> 1, name |-> "initial_schema"]>>

NotInitialized == "Database not initialized. Call initDatabase() first."

(* what the environment does to one initDatabase call: nothing, `new       *)
(* Database` throws (the file cannot be opened), a pragma throws, or a     *)
(* migration's db.exec throws                                              *)
InitOutcomes == {"ok", "openFails", "pragmaFails", "migrationFails"}

DbClockPoints == {0, 1000}

(* getCurrentVersion(db): MAX(version) of table migrations, 0 without rows *)
getCurrentVersion(table) ==
    IF table = <<>> THEN 0
    ELSE CHOOSE v \in {table[i].version : i \in 1..Len(table)} :
            \A i \in 1..Len(table) : table[i].version <= v

(* runMigrations(db): the rows it leaves in table migrations and whether   *)
(* it threw; a migration whose db.exec throws is not recorded              *)
runMigrations(table, execFails, t) ==
    LET currentVersion == getCurrentVersion(table)
        pendingMigrations == SelectSeq(migrations, LAMBDA mig : mig.version > currentVersion)
    IN  IF pendingMigrations = <<>> THEN [table |-> table, threw |-> FALSE]
        ELSE IF execFails THEN [table |-> table, threw |-> TRUE]
        ELSE [table |-> table \o [i \in 1..Len(pendingMigrations) |->
                                    [version |-> pendingMigrations[i].version,
                                     name |-> pendingMigrations[i].name,
                                     applied_at |-> t]],
              threw |-> FALSE]

InitDb ==
    /\ InitBase
    /\ recorded = <<>>
    /\ InitStream
    /\ InitPoolIdle /\ InitPairIdle
    /\ InitDbIdle

Returned(op, handle) == [op |-> op, threw |-> FALSE, value |-> handle, message |-> ""]
Threw(op, message) == [op |-> op, threw |-> TRUE, value |-> NULL, message |-> message]

(* initDatabase(): `if (db) return db`; otherwise db = new Database(DB_PATH) *)
(* is assigned before the pragmas and the migrations run, and the catch      *)
(* block logs and rethrows                                                   *)
initDatabase(outcome) ==
    IF db # NULL
    THEN /\ res' = Returned("initDatabase", db)
         /\ UNCHANGED <<db, dbOpened, migrationsTable, migrationRuns, dbReady>>
    ELSE /\ dbOpened < MaxOpened
         /\ IF outcome = "openFails"
            THEN /\ res' = Threw("initDatabase", "unable to open database file")
                 /\ UNCHANGED <<db, dbOpened, migrationsTable, migrationRuns, dbReady>>
            ELSE IF outcome = "pragmaFails"
            THEN /\ db' = dbOpened + 1
                 /\ dbOpened' = dbOpened + 1
                 /\ dbReady' = FALSE
                 /\ res' = Threw("initDatabase", "pragma failed")
                 /\ UNCHANGED <<migrationsTable, migrationRuns>>
            ELSE LET handle == dbOpened + 1
                     r == runMigrations(migrationsTable, outcome = "migrationFails", now)
                 IN  /\ db' = handle
                     /\ dbOpened' = handle
                     /\ migrationRuns' = migrationRuns + 1
                     /\ migrationsTable' = r.table
                     /\ dbReady' = ~r.threw
                     /\ res' = IF r.threw THEN Threw("initDatabase", "migration failed")
                               ELSE Returned("initDatabase", handle)

InitDatabase(outcome) ==
    /\ initDatabase(outcome)
    /\ UNCHANGED <<now, rateLimitStore, recorded>>
    /\ KeyFrame /\ StreamFrame /\ ReqFrame /\ PoolFrame /\ PairFrame

(* getDatabase(): throws when db is null, returns db otherwise *)
GetDatabase ==
    /\ res' = IF db = NULL THEN Threw("getDatabase", NotInitialized)
              ELSE Returned("getDatabase", db)
    /\ UNCHANGED <<now, rateLimitStore, recorded>>
    /\ KeyFrame /\ StreamFrame /\ ReqFrame /\ PoolFrame /\ PairFrame /\ DbFrame

(* closeDatabase(): `if (db) { db.close(); db = null }` *)
CloseDatabase ==
    /\ res' = Returned("closeDatabase", NULL)
    /\ db' = NULL
    /\ dbReady' = FALSE
    /\ UNCHANGED <<dbOpened, migrationsTable, migrationRuns>>
    /\ UNCHANGED <<now, rateLimitStore, recorded>>
    /\ KeyFrame /\ StreamFrame /\ ReqFrame /\ PoolFrame /\ PairFrame

DbTick(t) ==
    /\ t > now
    /\ now' = t
    /\ res' = NoResult
    /\ UNCHANGED <<rateLimitStore, recorded>>
    /\ KeyFrame /\ StreamFrame /\ ReqFrame /\ PoolFrame /\ PairFrame /\ DbFrame

NextDb ==
    \/ \E outcome \in InitOutcomes : InitDatabase(outcome)
    \/ GetDatabase
    \/ CloseDatabase
    \/ \E t \in DbClockPoints : DbTick(t)

SpecDb == InitDb /\ [][NextDb]_vars

(* C40: getDatabase returns the handle exactly when an initDatabase has    *)
(* completed successfully and no closeDatabase has run since, and throws   *)
(* 'Database not initialized' otherwise; an initDatabase that throws       *)
(* leaves the module uninitialized, so that a later initDatabase opens the *)
(* database and runs the migrations again.                                 *)
C40_HandleIffInitialized ==
    /\ res.op = "getDatabase" =>
         IF dbReady THEN ~res.threw /\ res.value = db /\ db # NULL
         ELSE res.threw /\ res.message = NotInitialized
    /\ (res.op = "initDatabase" /\ res.threw) => db = NULL
    /\ (res.op = "initDatabase" /\ ~res.threw) => (dbReady /\ res.value = db)

(* the parts of C40 that hold: an initDatabase on an initialized module    *)
(* returns the same handle without opening the database or entering        *)
(* runMigrations again; a closeDatabase leaves the module without handle,  *)
(* whether or not there was one; getDatabase throws when there is no       *)
(* handle                                                                  *)
C40_IdempotentCalls ==
    [][/\ (res'.op = "initDatabase" /\ db # NULL) =>
            /\ ~res'.threw /\ res'.value = db
            /\ db' = db /\ dbOpened' = dbOpened /\ migrationRuns' = migrationRuns
       /\ res'.op = "closeDatabase" =>
            /\ db' = NULL /\ ~res'.threw
            /\ migrationsTable' = migrationsTable
       /\ (res'.op = "getDatabase" /\ db = NULL) =>
            res'.threw /\ res'.message = NotInitialized]_vars

(* the first initDatabase threw in its migration: the module holds the     *)
(* handle it opened, getDatabase has returned it                           *)
C40_AfterFailedInit ==
    /\ res.op = "getDatabase"
    /\ ~res.threw
    /\ res.value = 1
    /\ ~dbReady
    /\ migrationsTable = <<>>
    /\ migrationRuns = 1

====
